---- MODULE Spec2Model ----
(***************************************************************************)
(* Model of the domain-isolated cache (backend/domain_cache.py,            *)
(* DomainCacheManager) and of the sliding-window rate limiter              *)
(* (backend/domain_security.py, RateLimiter).                              *)
(*                                                                         *)
(* Conventions.  A Python Optional is a set with at most one element: {}   *)
(* is None and {x} is the value x.  A Python str used as a tenant or as a  *)
(* logical key is a tuple of tokens, so that concatenation is \o.  A dict  *)
(* (and a defaultdict) is a function whose DOMAIN is the set of keys       *)
(* present.  Timestamps returned by time.time() are whole seconds.         *)
(***************************************************************************)
EXTENDS Integers, Sequences, FiniteSets, TLC

VARIABLES
    now,                     \* the value time.time() returns
    caches,                  \* DomainCacheManager._caches
    stats,                   \* DomainCacheManager._stats
    sweep_pc,                \* cleanup_worker: "run" inside a cycle, "sleep" between cycles
    sweep_todo,              \* domains of the current cycle's snapshot not yet visited
    sweep_wake,              \* earliest time at which time.sleep(_cleanup_interval) returns
    _running,                \* DomainCacheManager._running
    shutdown_pc,             \* shutdown(): "idle" before the call, then "join", "clear", "done"
    shutdown_todo,           \* shutdown(): tenants of its snapshot not yet cleared
    join_deadline,           \* the time at which _cleanup_thread.join(timeout=5) gives up
    _locks,                  \* DomainCacheManager._locks: the RLock stored for each tenant
    lock_holder,             \* for each RLock that is held, the thread holding it
    locks_created,           \* number of RLock objects created so far
    cpc,                     \* position of each thread inside a cache operation
    ccall,                   \* per thread: operation, tenant, key, value, the RLock it obtained
    cresult,                 \* per thread: what the operation returned
    _cache_manager_instance, \* the module global of get_cache_manager()
    managers_created,        \* number of DomainCacheManager objects constructed
    iter,                    \* the dict iteration of get_all_cache_stats / get_total_cache_size
    config,                  \* RateLimiter.config
    domain_requests,         \* RateLimiter.domain_requests (minute windows)
    domain_hourly_requests,  \* RateLimiter.domain_hourly_requests
    domain_burst_requests,   \* RateLimiter.domain_burst_requests
    lock,                    \* RateLimiter.lock: {} when free, {t} when thread t holds it
    pc,                      \* position of each request thread inside is_allowed
    call,                    \* per thread: the domain argument and the current_time it read
    result,                  \* per thread: the tuple is_allowed returned
    request,                 \* the HTTP request being served: query parameter, headers, path, method
    _domains,                \* DomainConfigManager._domains
    _default_config,         \* DomainConfigManager._default_config
    whitelist,               \* DomainWhitelistValidator.whitelist
    require_https,           \* SecurityConfig.require_https
    environ,                 \* the WSGI environ entries DOMAIN_NAME and DOMAIN_CONFIG
    g,                       \* Flask's g: domain and domain_config
    response,                \* the response to the request, None while it is being served
    gate_pc,                 \* where the request is: "idle", "wsgi", "before_request", "dispatch", "done"
    handled,                 \* whether a view function ran for the request
    served,                  \* number of requests received
    passed,                  \* the gate's stages the request has passed
    ret,                     \* the last completed sequential call: number, name, arguments, return value
    ref,                     \* per (tenant, key): what the last set stored, unless deleted or cleared since
    obs                      \* per tenant: how many get calls returned a value / returned None

shutdown_vars == <<_running, shutdown_pc, shutdown_todo, join_deadline>>
cache_vars == <<caches, stats, sweep_pc, sweep_todo, sweep_wake, shutdown_vars, ref, obs>>
rl_vars == <<config, domain_requests, domain_hourly_requests, domain_burst_requests>>
cache_thread_vars == <<_locks, lock_holder, locks_created, cpc, ccall, cresult,
                       _cache_manager_instance, managers_created, iter>>
thread_vars == <<lock, pc, call, result, cache_thread_vars>>
http_vars == <<request, _domains, _default_config, whitelist, require_https, environ, g,
               response, gate_pc, handled, served, passed>>
vars == <<now, cache_vars, rl_vars, thread_vars, http_vars, ret>>

(***************************************************************************)
(* Bounds of the model.                                                    *)
(***************************************************************************)
TickStep == 5       \* spacing of the clock readings around a time base
MaxOps == 3         \* sequential calls in one behaviour
MaxDeepOps == 5     \* sequential calls in one behaviour on a single tenant and key
MaxRLOps == 3       \* sequential rate-limiter calls in one behaviour
MaxLimit == 2       \* largest configured rate limit
NumThreads == 2     \* concurrent request threads

(***************************************************************************)
(* Program constants.                                                      *)
(***************************************************************************)
DefaultTimeout == 300
cleanup_interval == 300
JoinTimeout == 5
BurstWindow == 10
MinuteWindow == 60
HourWindow == 3600

Domains == {<<"a">>, <<"b">>}
\* The tenant arguments a caller can pass: the tenants, and the empty string.
Tenants == Domains \cup {<< >>}
Keys == {<<"k">>, <<"j">>}
Values == {<<"x">>, <<"y", "z">>}
Timeouts == {{}, {0}}               \* the timeout argument of set: None, 0 s
Threads == 1..NumThreads

\* The (tenant, key) arguments of the cache calls: the same key string under
\* two tenants; two keys of one tenant; one key of one tenant.
CallArgs == {<<<<"a">>, <<"k">>>>, <<<<"b">>, <<"k">>>>}
KeysCallArgs == {<<<<"a">>, <<"k">>>>, <<<<"a">>, <<"j">>>>}
\* The arguments of the key derivation: every tenant argument with every key,
\* and two pairs whose tenant or key contains the separator ":key:".
KeyDerivationArgs ==
    (Tenants \X Keys) \cup
    {<<<<"a", ":", "k", "e", "y", ":", "b">>, <<"c">>>>,
     <<<<"a">>, <<"b", ":", "k", "e", "y", ":", "c">>>>}
DeepCallArgs == {<<<<"a">>, <<"k">>>>}
DeepValues == {<<"x">>}
\* Calls on a tenant and on the empty tenant id, without a timeout.
AdminCallArgs == {<<<<"a">>, <<"k">>>>, <<<< >>, <<"k">>>>}
AdminTimeouts == {{}}
\* The timeouts of the behaviours about lifetimes: None, 0 s, and a negative one.
TTLTimeouts == {{}, {0}, {-1}}
\* The cache_timeout of the tenant configurations.
ConfigTimeouts == {120}

NoneVal == {}
Some(x) == {x}
The(s) == CHOOSE x \in s : TRUE

\* Clock readings around a time base: the base and one step later.
Offsets == {0, TickStep}
\* Clock readings of the cache behaviours: the start, a little later, and a
\* little more than the default timeout later.
CacheTimePoints == {0, TickStep, DefaultTimeout + TickStep}
\* Clock readings around the end of a configured and of a default lifetime.
TTLTimePoints == {0, 120, 121, 300, 301}
RLTimePoints == {b + o : b \in {0, BurstWindow, MinuteWindow, HourWindow}, o \in Offsets}
\* Clock readings of the concurrent behaviours: inside and just outside one burst window.
ConcTimePoints == {b + o : b \in {0, BurstWindow}, o \in Offsets}

(***************************************************************************)
(* dict and defaultdict.                                                   *)
(***************************************************************************)
EmptyDict == [x \in {} |-> x]
DictSet(f, k, v) == [x \in (DOMAIN f) \cup {k} |-> IF x = k THEN v ELSE f[x]]
DictDel(f, k) == [x \in (DOMAIN f) \ {k} |-> f[x]]
DefaultGet(f, k, dflt) == IF k \in DOMAIN f THEN f[k] ELSE dflt

SetMin(S) == CHOOSE x \in S : \A y \in S : x <= y
SetMax(S) == CHOOSE x \in S : \A y \in S : x >= y

RECURSIVE SumOver(_, _)
SumOver(f, S) ==
    IF S = {} THEN 0
    ELSE LET x == CHOOSE y \in S : TRUE IN f[x] + SumOver(f, S \ {x})

(***************************************************************************)
(* CacheEntry.                                                             *)
(***************************************************************************)
CacheEntry(value, created_at, expires_at, t) ==
    [value |-> value, created_at |-> created_at, expires_at |-> expires_at,
     access_count |-> 0, last_accessed |-> t]

\* Mutant: the comparison the wrong way round.
is_expired_inverted(entry, t) == t < entry.expires_at

is_expired(entry, t) == t > entry.expires_at

\* Mutant: a read restarts the entry's lifetime (sliding expiration).
access_sliding(entry, t) ==
    [entry EXCEPT !.access_count = @ + 1, !.last_accessed = t,
                  !.expires_at = t + (entry.expires_at - entry.created_at)]

access(entry, t) ==
    [entry EXCEPT !.access_count = @ + 1, !.last_accessed = t]

(***************************************************************************)
(* DomainCacheStats.                                                       *)
(***************************************************************************)
DomainCacheStats(domain) ==
    [domain |-> domain, total_entries |-> 0, total_hits |-> 0, total_misses |-> 0,
     total_sets |-> 0, total_deletes |-> 0, total_size_bytes |-> 0,
     oldest_entry |-> NoneVal, newest_entry |-> NoneVal]

DefaultStats == DomainCacheStats(<< >>)

\* The hit rate as the exact fraction num/den of a percentage.
hit_rate(st) ==
    LET total_requests == st.total_hits + st.total_misses IN
    IF total_requests = 0 THEN [num |-> 0, den |-> 1]
    ELSE [num |-> st.total_hits * 100, den |-> total_requests]

\* round(num/den, 2) in hundredths, ties to even, for num >= 0 and den > 0.
round2(q) ==
    LET scaled == q.num * 100
        lo == scaled \div q.den
        rem2 == 2 * (scaled % q.den)
    IN IF rem2 < q.den THEN lo
       ELSE IF rem2 > q.den THEN lo + 1
       ELSE IF lo % 2 = 0 THEN lo ELSE lo + 1

isoformat(t) == IF t = NoneVal THEN NoneVal ELSE Some(<<"iso", The(t)>>)

to_dict(st) ==
    [domain |-> st.domain,
     total_entries |-> st.total_entries,
     total_hits |-> st.total_hits,
     total_misses |-> st.total_misses,
     total_sets |-> st.total_sets,
     total_deletes |-> st.total_deletes,
     hit_rate_percent |-> round2(hit_rate(st)),
     total_size_bytes |-> st.total_size_bytes,
     oldest_entry |-> isoformat(st.oldest_entry),
     newest_entry |-> isoformat(st.newest_entry)]

(***************************************************************************)
(* DomainCacheManager: the pure part of each operation.  Each operator     *)
(* takes the tenant's entry map and statistics as found (the defaultdict   *)
(* default when the tenant is new) and yields them as left by the call,    *)
(* with the value returned.                                                *)
(***************************************************************************)
\* hashlib.md5(...).hexdigest(): deterministic, and collision-free on the
\* key material of the model.
md5(material) == [hexdigest_of |-> material]

\* f"domain:{domain}:key:{key}": the characters of the four parts, one after
\* the other.
domain_key(domain, key) ==
    <<"d", "o", "m", "a", "i", "n", ":">> \o domain \o <<":", "k", "e", "y", ":">> \o key

_get_cache_key(domain, key) == md5(domain_key(domain, key))

\* The str branch: the number of bytes of the (ASCII) value.
_calculate_entry_size(value) == Len(value)

_update_cache_stats(cache, st, domain) ==
    LET sizes == [ck \in DOMAIN cache |-> _calculate_entry_size(cache[ck].value)]
        entry_times == {cache[ck].created_at : ck \in DOMAIN cache}
    IN IF DOMAIN cache # {}
       THEN [st EXCEPT !.domain = domain,
                       !.total_entries = Cardinality(DOMAIN cache),
                       !.oldest_entry = Some(SetMin(entry_times)),
                       !.newest_entry = Some(SetMax(entry_times)),
                       !.total_size_bytes = SumOver(sizes, DOMAIN cache)]
       ELSE [st EXCEPT !.domain = domain,
                       !.total_entries = 0,
                       !.oldest_entry = NoneVal,
                       !.newest_entry = NoneVal,
                       !.total_size_bytes = 0]

\* Mutant: the expired branch evicts without counting a miss.
get_uncounted_expiry(cache, st, domain, key, t) ==
    LET cache_key == _get_cache_key(domain, key) IN
    IF cache_key \in DOMAIN cache
    THEN LET entry == cache[cache_key] IN
         IF is_expired(entry, t)
         THEN LET c2 == DictDel(cache, cache_key)
              IN [cache |-> c2, stats |-> _update_cache_stats(c2, st, domain),
                  value |-> NoneVal]
         ELSE [cache |-> DictSet(cache, cache_key, access(entry, t)),
               stats |-> [st EXCEPT !.total_hits = @ + 1],
               value |-> Some(entry.value)]
    ELSE [cache |-> cache,
          stats |-> [st EXCEPT !.total_misses = @ + 1],
          value |-> NoneVal]

get(cache, st, domain, key, t) ==
    LET cache_key == _get_cache_key(domain, key) IN
    IF cache_key \in DOMAIN cache
    THEN LET entry == cache[cache_key] IN
         IF is_expired(entry, t)
         THEN LET c2 == DictDel(cache, cache_key)
                  s2 == [st EXCEPT !.total_misses = @ + 1]
              IN [cache |-> c2, stats |-> _update_cache_stats(c2, s2, domain),
                  value |-> NoneVal]
         ELSE [cache |-> DictSet(cache, cache_key, access(entry, t)),
               stats |-> [st EXCEPT !.total_hits = @ + 1],
               value |-> Some(entry.value)]
    ELSE [cache |-> cache,
          stats |-> [st EXCEPT !.total_misses = @ + 1],
          value |-> NoneVal]

\* Mutant: an existing entry is updated in place, keeping its created_at and
\* access_count.
set_in_place(cache, st, domain, key, value, timeout, t) ==
    LET cache_key == _get_cache_key(domain, key)
        tmo == IF timeout = NoneVal THEN DefaultTimeout ELSE The(timeout)
        entry == IF cache_key \in DOMAIN cache
                 THEN [cache[cache_key] EXCEPT !.value = value, !.expires_at = t + tmo]
                 ELSE CacheEntry(value, t, t + tmo, t)
        c2 == DictSet(cache, cache_key, entry)
        s2 == [st EXCEPT !.total_sets = @ + 1]
    IN [cache |-> c2, stats |-> _update_cache_stats(c2, s2, domain), value |-> NoneVal]

set(cache, st, domain, key, value, timeout, t) ==
    LET cache_key == _get_cache_key(domain, key)
        current_time == t
        tmo == IF timeout = NoneVal THEN DefaultTimeout ELSE The(timeout)
        expires_at == current_time + tmo
        entry == CacheEntry(value, current_time, expires_at, t)
        c2 == DictSet(cache, cache_key, entry)
        s2 == [st EXCEPT !.total_sets = @ + 1]
    IN [cache |-> c2, stats |-> _update_cache_stats(c2, s2, domain), value |-> NoneVal]

\* Mutant: a delete is counted whether or not the key was found.
delete_counting_absent(cache, st, domain, key) ==
    LET cache_key == _get_cache_key(domain, key)
        c2 == DictDel(cache, cache_key)
        s2 == [st EXCEPT !.total_deletes = @ + 1]
    IN [cache |-> c2, stats |-> _update_cache_stats(c2, s2, domain),
        value |-> cache_key \in DOMAIN cache]

\* The fields of DomainConfig the cache reads.
DomainConfig(cache_timeout) == [cache_timeout |-> cache_timeout]

set_with_domain_config(cache, st, domain, key, value, domain_config, t) ==
    LET timeout == domain_config.cache_timeout
    IN set(cache, st, domain, key, value, Some(timeout), t)

delete(cache, st, domain, key) ==
    LET cache_key == _get_cache_key(domain, key) IN
    IF cache_key \in DOMAIN cache
    THEN LET c2 == DictDel(cache, cache_key)
             s2 == [st EXCEPT !.total_deletes = @ + 1]
         IN [cache |-> c2, stats |-> _update_cache_stats(c2, s2, domain), value |-> TRUE]
    ELSE [cache |-> cache, stats |-> st, value |-> FALSE]

\* Mutant: the clear counts one delete, however many entries it removed.
clear_domain_cache_counting_one(cache, st, domain) ==
    LET count == Cardinality(DOMAIN cache)
        c2 == EmptyDict
        s2 == [st EXCEPT !.total_deletes = @ + 1]
    IN [cache |-> c2, stats |-> _update_cache_stats(c2, s2, domain), value |-> count]

clear_domain_cache(cache, st, domain) ==
    LET count == Cardinality(DOMAIN cache)
        c2 == EmptyDict
        s2 == [st EXCEPT !.total_deletes = @ + count]
    IN [cache |-> c2, stats |-> _update_cache_stats(c2, s2, domain), value |-> count]

get_cache_stats(cache, st, domain) ==
    LET s2 == _update_cache_stats(cache, st, domain)
    IN [cache |-> cache, stats |-> s2, value |-> to_dict(s2)]

\* get_all_cache_stats: the statistics of every tenant of _caches, then of
\* every tenant of _stats not yet reported.  get_cache_stats goes through the
\* two defaultdicts, so each tenant reported ends up in both.
get_all_cache_stats(cs, sts) ==
    LET rep(c, s, d) == get_cache_stats(DefaultGet(c, d, EmptyDict),
                                        DefaultGet(s, d, DefaultStats), d)
        first == DOMAIN cs
        sts1 == [d \in (DOMAIN sts) \cup first |->
                    IF d \in first THEN rep(cs, sts, d).stats ELSE sts[d]]
        second == (DOMAIN sts1) \ first
        cs2 == [d \in first \cup second |-> DefaultGet(cs, d, EmptyDict)]
        sts2 == [d \in DOMAIN sts1 |->
                    IF d \in second THEN rep(cs2, sts1, d).stats ELSE sts1[d]]
        all_stats == [d \in first \cup second |->
                         IF d \in first THEN rep(cs, sts, d).value
                         ELSE rep(cs2, sts1, d).value]
    IN [caches |-> cs2, stats |-> sts2, value |-> all_stats]

\* len(self._caches[domain])
get_domain_cache_size(cache) == Cardinality(DOMAIN cache)

\* sum of get_domain_cache_size over the tenants of _caches
get_total_cache_size(cs) ==
    SumOver([d \in DOMAIN cs |-> get_domain_cache_size(cs[d])], DOMAIN cs)

\* list(self._caches[domain].keys()), as the set of the hashed keys
list_domain_keys(cache) == DOMAIN cache

\* Mutant: the sweep also removes the entries that reach their expires_at at
\* the time of the sweep.
_cleanup_expired_entries_at_deadline(cache, st, domain, t) ==
    LET expired_keys == {ck \in DOMAIN cache : t >= cache[ck].expires_at}
        c2 == [ck \in (DOMAIN cache) \ expired_keys |-> cache[ck]]
    IN [cache |-> c2,
        stats |-> IF expired_keys # {} THEN _update_cache_stats(c2, st, domain) ELSE st,
        value |-> Cardinality(expired_keys)]

\* Mutant: the sweep counts every entry it removes as a delete.
_cleanup_expired_entries_as_deletes(cache, st, domain, t) ==
    LET expired_keys == {ck \in DOMAIN cache : is_expired(cache[ck], t)}
        c2 == [ck \in (DOMAIN cache) \ expired_keys |-> cache[ck]]
        s2 == [st EXCEPT !.total_deletes = @ + Cardinality(expired_keys)]
    IN [cache |-> c2,
        stats |-> IF expired_keys # {} THEN _update_cache_stats(c2, s2, domain) ELSE st,
        value |-> Cardinality(expired_keys)]

\* One tenant's share of _cleanup_expired_entries.
_cleanup_expired_entries(cache, st, domain, t) ==
    LET expired_keys == {ck \in DOMAIN cache : is_expired(cache[ck], t)}
        c2 == [ck \in (DOMAIN cache) \ expired_keys |-> cache[ck]]
    IN [cache |-> c2,
        stats |-> IF expired_keys # {} THEN _update_cache_stats(c2, st, domain) ELSE st,
        value |-> Cardinality(expired_keys)]


(***************************************************************************)
(* RateLimiter: the pure part.  A window is a deque of timestamps, oldest  *)
(* first.                                                                  *)
(***************************************************************************)
\* while w and w[0] <= cutoff: w.popleft()
RECURSIVE popleft_while(_, _)
popleft_while(w, cutoff) ==
    IF w # << >> /\ Head(w) <= cutoff THEN popleft_while(Tail(w), cutoff) ELSE w

\* sum(1 for req_time in w if req_time > window)
recent(w, window) == Cardinality({i \in 1..Len(w) : w[i] > window})

_clean_old_requests(bw, mw, hw, current_time) ==
    [burst |-> popleft_while(bw, current_time - BurstWindow),
     minute |-> popleft_while(mw, current_time - MinuteWindow),
     hourly |-> popleft_while(hw, current_time - HourWindow)]

\* Mutant: the burst comparison lets one request too many through.
burst_exceeded_off_by_one(recent_burst, cfg) == recent_burst > cfg.burst_limit

\* if recent_burst >= self.config.burst_limit
burst_exceeded(recent_burst, cfg) == recent_burst >= cfg.burst_limit

\* Mutant: the limits are checked from the longest window to the shortest.
check_limits_hour_first(bw, mw, hw, cfg, domain, current_time) ==
    LET w == _clean_old_requests(bw, mw, hw, current_time)
        recent_burst == recent(w.burst, current_time - BurstWindow)
        recent_minute == recent(w.minute, current_time - MinuteWindow)
        recent_hour == recent(w.hourly, current_time - HourWindow)
        denied(msg) == [burst |-> w.burst, minute |-> w.minute, hourly |-> w.hourly,
                        allowed |-> FALSE, reason |-> Some(msg \o domain)]
    IN IF recent_hour >= cfg.requests_per_hour
       THEN denied(<<"Per-hour rate limit exceeded for domain ">>)
       ELSE IF recent_minute >= cfg.requests_per_minute
       THEN denied(<<"Per-minute rate limit exceeded for domain ">>)
       ELSE IF burst_exceeded(recent_burst, cfg)
       THEN denied(<<"Burst limit exceeded for domain ">>)
       ELSE [burst |-> w.burst, minute |-> w.minute, hourly |-> w.hourly,
             allowed |-> TRUE, reason |-> NoneVal]

\* The part of is_allowed from the cleaning to the last limit check: the
\* windows as cleaned, and the tuple to return when a limit is reached.
check_limits(bw, mw, hw, cfg, domain, current_time) ==
    LET w == _clean_old_requests(bw, mw, hw, current_time)
        recent_burst == recent(w.burst, current_time - BurstWindow)
        recent_minute == recent(w.minute, current_time - MinuteWindow)
        recent_hour == recent(w.hourly, current_time - HourWindow)
        denied(msg) == [burst |-> w.burst, minute |-> w.minute, hourly |-> w.hourly,
                        allowed |-> FALSE, reason |-> Some(msg \o domain)]
    IN IF burst_exceeded(recent_burst, cfg)
       THEN denied(<<"Burst limit exceeded for domain ">>)
       ELSE IF recent_minute >= cfg.requests_per_minute
       THEN denied(<<"Per-minute rate limit exceeded for domain ">>)
       ELSE IF recent_hour >= cfg.requests_per_hour
       THEN denied(<<"Per-hour rate limit exceeded for domain ">>)
       ELSE [burst |-> w.burst, minute |-> w.minute, hourly |-> w.hourly,
             allowed |-> TRUE, reason |-> NoneVal]

\* "Record this request": the three appends.
record_request(bw, mw, hw, current_time) ==
    [burst |-> Append(bw, current_time),
     minute |-> Append(mw, current_time),
     hourly |-> Append(hw, current_time)]

\* Mutant: a denied request is recorded as well.
is_allowed_recording_denied(bw, mw, hw, cfg, domain, current_time) ==
    LET c == check_limits(bw, mw, hw, cfg, domain, current_time)
        r == record_request(c.burst, c.minute, c.hourly, current_time)
    IN [burst |-> r.burst, minute |-> r.minute, hourly |-> r.hourly,
        allowed |-> c.allowed, reason |-> c.reason]

\* is_allowed with rate limiting enabled, as run under the lock.
is_allowed(bw, mw, hw, cfg, domain, current_time) ==
    LET c == check_limits(bw, mw, hw, cfg, domain, current_time) IN
    IF c.allowed
    THEN LET r == record_request(c.burst, c.minute, c.hourly, current_time)
         IN [burst |-> r.burst, minute |-> r.minute, hourly |-> r.hourly,
             allowed |-> TRUE, reason |-> NoneVal]
    ELSE c

get_stats(bw, mw, hw, cfg, current_time) ==
    LET w == _clean_old_requests(bw, mw, hw, current_time) IN
    [burst |-> w.burst, minute |-> w.minute, hourly |-> w.hourly,
     value |-> [burst_requests |-> Len(w.burst),
                minute_requests |-> Len(w.minute),
                hourly_requests |-> Len(w.hourly),
                burst_limit |-> cfg.burst_limit,
                minute_limit |-> cfg.requests_per_minute,
                hour_limit |-> cfg.requests_per_hour]]

(***************************************************************************)
(* Initial state: a freshly constructed DomainCacheManager and a freshly   *)
(* constructed RateLimiter, at clock reading 0.                            *)
(***************************************************************************)
\* A request with no domain parameter, no X-Domain header and no Host header.
NoRequest == [args_domain |-> NoneVal, x_domain |-> NoneVal, host |-> NoneVal,
              path |-> "/api/data", method |-> "GET", is_secure |-> FALSE,
              content_length |-> NoneVal]

NoEnviron == [DOMAIN_NAME |-> NoneVal, DOMAIN_CONFIG |-> NoneVal]
NoG == [domain |-> NoneVal, domain_config |-> NoneVal]

\* No request is being served.
IdleGate ==
    /\ environ = NoEnviron
    /\ g = NoG
    /\ response = NoneVal
    /\ gate_pc = "idle"
    /\ handled = FALSE
    /\ served = 0
    /\ passed = {}

\* No tenant is configured, the whitelist is empty and no request was received.
InitHttp ==
    /\ request = NoRequest
    /\ _domains = << >>
    /\ _default_config = NoneVal
    /\ whitelist = {}
    /\ require_https = FALSE
    /\ IdleGate

NoCall == [seq |-> 0, op |-> "none", domain |-> << >>, key |-> << >>, value |-> NoneVal,
           raised |-> NoneVal]

\* The threads that use the cache: the request threads and the cleanup thread.
CleanupThread == 0
CacheThreads == {CleanupThread} \cup Threads

NoCacheCall == [op |-> "none", domain |-> << >>, key |-> << >>, value |-> << >>,
                current_time |-> NoneVal, lock |-> 0, order |-> 0, todo |-> {},
                instance |-> NoneVal]
NoIteration == [pc |-> "idle", op |-> "none", began |-> {}, used |-> NoneVal,
                yielded |-> {}, total |-> 0, all_stats |-> EmptyDict]

InitCacheManager ==
    /\ _locks = EmptyDict
    /\ lock_holder = EmptyDict
    /\ locks_created = 0
    /\ cpc = [t \in CacheThreads |-> "idle"]
    /\ ccall = [t \in CacheThreads |-> NoCacheCall]
    /\ cresult = [t \in CacheThreads |-> NoneVal]
    /\ _cache_manager_instance = NoneVal
    /\ managers_created = 0
    /\ iter = NoIteration
    /\ caches = EmptyDict
    /\ stats = EmptyDict
    /\ sweep_pc = "sleep"
    /\ sweep_todo = {}
    /\ sweep_wake = 0
    /\ _running = TRUE
    /\ shutdown_pc = "idle"
    /\ shutdown_todo = {}
    /\ join_deadline = 0
    /\ ref = [d \in Tenants |-> [k \in Keys |-> NoneVal]]
    /\ obs = [d \in Tenants |-> [hits |-> 0, misses |-> 0]]

RateLimitConfig(rpm, rph, burst, enabled) ==
    [requests_per_minute |-> rpm, requests_per_hour |-> rph,
     burst_limit |-> burst, enabled |-> enabled]

InitRateLimiter(cfg) ==
    /\ config = cfg
    /\ domain_requests = EmptyDict
    /\ domain_hourly_requests = EmptyDict
    /\ domain_burst_requests = EmptyDict
    /\ lock = {}
    /\ pc = [t \in Threads |-> "idle"]
    /\ call = [t \in Threads |-> [domain |-> << >>, current_time |-> 0]]
    /\ result = [t \in Threads |-> [allowed |-> TRUE, reason |-> NoneVal]]

(***************************************************************************)
(* The cache's operations as atomic steps: each runs under the tenant's    *)
(* lock, and the clock is read once per call.                              *)
(***************************************************************************)
CacheOf(d) == DefaultGet(caches, d, EmptyDict)
StatsOf(d) == DefaultGet(stats, d, DefaultStats)

\* The call returns value.
Returned(op, d, k, value) ==
    ret' = [seq |-> ret.seq + 1, op |-> op, domain |-> d, key |-> k, value |-> value,
            raised |-> NoneVal]

\* The call raises the exception exc.
Raised(op, d, k, exc) ==
    ret' = [seq |-> ret.seq + 1, op |-> op, domain |-> d, key |-> k, value |-> NoneVal,
            raised |-> Some(exc)]

Store(d, r) ==
    /\ caches' = DictSet(caches, d, r.cache)
    /\ stats' = DictSet(stats, d, r.stats)

Get(d, k) ==
    /\ LET r == get(CacheOf(d), StatsOf(d), d, k, now) IN
        /\ Store(d, r)
        /\ Returned("get", d, k, r.value)
        /\ obs' = [obs EXCEPT ![d] = IF r.value # NoneVal
                                      THEN [@ EXCEPT !.hits = @ + 1]
                                      ELSE [@ EXCEPT !.misses = @ + 1]]
    /\ UNCHANGED <<now, http_vars, shutdown_vars, sweep_pc, sweep_todo, sweep_wake, ref, rl_vars, thread_vars>>

Set(d, k, v, timeout) ==
    /\ LET r == set(CacheOf(d), StatsOf(d), d, k, v, timeout, now) IN
        /\ Store(d, r)
        /\ Returned("set", d, k, r.value)
    /\ ref' = [ref EXCEPT ![d][k] =
                 Some([value |-> v,
                       ttl |-> IF timeout = NoneVal THEN 300 ELSE The(timeout),
                       at |-> now])]
    /\ UNCHANGED <<now, http_vars, shutdown_vars, sweep_pc, sweep_todo, sweep_wake, obs, rl_vars, thread_vars>>

\* Mutant: the tenant's configured timeout is ignored and the default is used.
SetWithDomainConfigUsingDefault(d, k, v, domain_config) ==
    /\ LET r == set(CacheOf(d), StatsOf(d), d, k, v, NoneVal, now) IN
        /\ Store(d, r)
        /\ Returned("set_with_domain_config", d, k, r.value)
    /\ ref' = [ref EXCEPT ![d][k] =
                 Some([value |-> v, ttl |-> domain_config.cache_timeout, at |-> now])]
    /\ UNCHANGED <<now, http_vars, shutdown_vars, sweep_pc, sweep_todo, sweep_wake, obs, rl_vars, thread_vars>>

SetWithDomainConfig(d, k, v, domain_config) ==
    /\ LET r == set_with_domain_config(CacheOf(d), StatsOf(d), d, k, v, domain_config, now) IN
        /\ Store(d, r)
        /\ Returned("set_with_domain_config", d, k, r.value)
    /\ ref' = [ref EXCEPT ![d][k] =
                 Some([value |-> v, ttl |-> domain_config.cache_timeout, at |-> now])]
    /\ UNCHANGED <<now, http_vars, shutdown_vars, sweep_pc, sweep_todo, sweep_wake, obs, rl_vars, thread_vars>>

Delete(d, k) ==
    /\ LET r == delete(CacheOf(d), StatsOf(d), d, k) IN
        /\ Store(d, r)
        /\ Returned("delete", d, k, r.value)
    /\ ref' = [ref EXCEPT ![d][k] = NoneVal]
    /\ UNCHANGED <<now, http_vars, shutdown_vars, sweep_pc, sweep_todo, sweep_wake, obs, rl_vars, thread_vars>>

\* Mutant: the clear empties every tenant's entry map.
ClearEveryCache(d) ==
    /\ LET r == clear_domain_cache(CacheOf(d), StatsOf(d), d) IN
        /\ caches' = [x \in (DOMAIN caches) \cup {d} |-> EmptyDict]
        /\ stats' = DictSet(stats, d, r.stats)
        /\ Returned("clear_domain_cache", d, << >>, r.value)
    /\ ref' = [ref EXCEPT ![d] = [k \in Keys |-> NoneVal]]
    /\ UNCHANGED <<now, http_vars, shutdown_vars, sweep_pc, sweep_todo, sweep_wake, obs, rl_vars, thread_vars>>

ClearDomainCache(d) ==
    /\ LET r == clear_domain_cache(CacheOf(d), StatsOf(d), d) IN
        /\ Store(d, r)
        /\ Returned("clear_domain_cache", d, << >>, r.value)
    /\ ref' = [ref EXCEPT ![d] = [k \in Keys |-> NoneVal]]
    /\ UNCHANGED <<now, http_vars, shutdown_vars, sweep_pc, sweep_todo, sweep_wake, obs, rl_vars, thread_vars>>

GetCacheStats(d) ==
    /\ LET r == get_cache_stats(CacheOf(d), StatsOf(d), d) IN
        /\ Store(d, r)
        /\ Returned("get_cache_stats", d, << >>, r.value)
    /\ UNCHANGED <<now, http_vars, shutdown_vars, sweep_pc, sweep_todo, sweep_wake, ref, obs, rl_vars, thread_vars>>

GetAllCacheStats ==
    /\ LET r == get_all_cache_stats(caches, stats) IN
        /\ caches' = r.caches
        /\ stats' = r.stats
        /\ Returned("get_all_cache_stats", << >>, << >>, r.value)
    /\ UNCHANGED <<now, http_vars, shutdown_vars, sweep_pc, sweep_todo, sweep_wake, ref, obs, rl_vars, thread_vars>>

\* self._caches[domain] creates the tenant's entry map; _stats is not read.
GetDomainCacheSize(d) ==
    /\ caches' = DictSet(caches, d, CacheOf(d))
    /\ Returned("get_domain_cache_size", d, << >>, get_domain_cache_size(CacheOf(d)))
    /\ UNCHANGED <<now, http_vars, shutdown_vars, stats, sweep_pc, sweep_todo, sweep_wake, ref, obs, rl_vars, thread_vars>>

GetTotalCacheSize ==
    /\ Returned("get_total_cache_size", << >>, << >>, get_total_cache_size(caches))
    /\ UNCHANGED <<now, http_vars, shutdown_vars, caches, stats, sweep_pc, sweep_todo, sweep_wake, ref, obs, rl_vars, thread_vars>>

ListDomainKeys(d) ==
    /\ caches' = DictSet(caches, d, CacheOf(d))
    /\ Returned("list_domain_keys", d, << >>, list_domain_keys(CacheOf(d)))
    /\ UNCHANGED <<now, http_vars, shutdown_vars, stats, sweep_pc, sweep_todo, sweep_wake, ref, obs, rl_vars, thread_vars>>

(***************************************************************************)
(* cleanup_worker: a cycle takes list(self._caches.keys()), visits each    *)
(* tenant of it under that tenant's lock, then sleeps _cleanup_interval.   *)
(* The tenants of one cycle are visited in any order here.                 *)
(***************************************************************************)
SweepStart ==
    /\ sweep_pc = "sleep"
    /\ now >= sweep_wake
    /\ _running
    /\ sweep_pc' = "run"
    /\ sweep_todo' = DOMAIN caches
    /\ UNCHANGED <<now, http_vars, shutdown_vars, caches, stats, sweep_wake, ref, obs, rl_vars, thread_vars, ret>>

SweepDomain(d) ==
    /\ sweep_pc = "run"
    /\ d \in sweep_todo
    /\ LET r == _cleanup_expired_entries(caches[d], StatsOf(d), d, now) IN
        /\ caches' = DictSet(caches, d, r.cache)
        /\ stats' = IF r.value > 0 THEN DictSet(stats, d, r.stats) ELSE stats
    /\ sweep_todo' = sweep_todo \ {d}
    /\ UNCHANGED <<now, http_vars, shutdown_vars, sweep_pc, sweep_wake, ref, obs, rl_vars, thread_vars, ret>>

SweepSleep ==
    /\ sweep_pc = "run"
    /\ sweep_todo = {}
    /\ sweep_pc' = "sleep"
    /\ sweep_wake' = now + cleanup_interval
    /\ UNCHANGED <<now, http_vars, shutdown_vars, caches, stats, sweep_todo, ref, obs, rl_vars, thread_vars, ret>>

\* The worker finds _running false when its sleep is over, and ends.
SweepExit ==
    /\ sweep_pc = "sleep"
    /\ now >= sweep_wake
    /\ ~_running
    /\ sweep_pc' = "exited"
    /\ UNCHANGED <<now, http_vars, shutdown_vars, caches, stats, sweep_todo, sweep_wake, ref, obs,
                   rl_vars, thread_vars, ret>>

(***************************************************************************)
(* shutdown(): it sets _running to false, joins the worker for at most     *)
(* JoinTimeout seconds when the worker is alive, then takes                *)
(* list(self._caches.keys()) and clears each tenant of it.  The wait of    *)
(* the join is a step that either finds the worker ended or moves the      *)
(* clock to the deadline.                                                  *)
(***************************************************************************)
ShutdownBegin ==
    /\ shutdown_pc = "idle"
    /\ _running' = FALSE
    /\ IF sweep_pc # "exited"
       THEN /\ shutdown_pc' = "join"
            /\ join_deadline' = now + JoinTimeout
            /\ shutdown_todo' = {}
       ELSE /\ shutdown_pc' = "clear"
            /\ shutdown_todo' = DOMAIN caches
            /\ UNCHANGED join_deadline
    /\ UNCHANGED <<now, http_vars, caches, stats, sweep_pc, sweep_todo, sweep_wake, ref, obs,
                   rl_vars, thread_vars, ret>>

ShutdownJoin ==
    /\ shutdown_pc = "join"
    /\ now' = IF sweep_pc # "exited" /\ now < join_deadline THEN join_deadline ELSE now
    /\ shutdown_pc' = "clear"
    /\ shutdown_todo' = DOMAIN caches
    /\ UNCHANGED <<http_vars, _running, join_deadline, caches, stats, sweep_pc, sweep_todo, sweep_wake,
                   ref, obs, rl_vars, thread_vars, ret>>

\* Mutant: the tenant is passed over without being cleared.
ShutdownClearKeepingEntries(d) ==
    /\ shutdown_pc = "clear"
    /\ d \in shutdown_todo
    /\ shutdown_todo' = shutdown_todo \ {d}
    /\ UNCHANGED <<now, http_vars, _running, shutdown_pc, join_deadline, caches, stats, ref,
                   sweep_pc, sweep_todo, sweep_wake, obs, rl_vars, thread_vars, ret>>

ShutdownClear(d) ==
    /\ shutdown_pc = "clear"
    /\ d \in shutdown_todo
    /\ Store(d, clear_domain_cache(CacheOf(d), StatsOf(d), d))
    /\ shutdown_todo' = shutdown_todo \ {d}
    /\ ref' = [ref EXCEPT ![d] = [k \in Keys |-> NoneVal]]
    /\ UNCHANGED <<now, http_vars, _running, shutdown_pc, join_deadline, sweep_pc, sweep_todo, sweep_wake,
                   obs, rl_vars, thread_vars, ret>>

ShutdownReturn ==
    /\ shutdown_pc = "clear"
    /\ shutdown_todo = {}
    /\ shutdown_pc' = "done"
    /\ Returned("shutdown", << >>, << >>, NoneVal)
    /\ UNCHANGED <<now, http_vars, _running, shutdown_todo, join_deadline, caches, stats, sweep_pc,
                   sweep_todo, sweep_wake, ref, obs, rl_vars, thread_vars>>

Shutdown ==
    \/ ShutdownBegin
    \/ ShutdownJoin
    \/ \E d \in Domains : ShutdownClear(d)
    \/ ShutdownReturn

\* The clock does not pass the join's deadline while the join is waiting.
TickShutdown ==
    /\ \E t \in CacheTimePoints :
          /\ t > now
          /\ shutdown_pc = "join" => t <= join_deadline
          /\ now' = t
    /\ UNCHANGED <<http_vars, cache_vars, rl_vars, thread_vars, ret>>

Tick(points) ==
    /\ \E t \in points : t > now /\ now' = t
    /\ UNCHANGED <<http_vars, cache_vars, rl_vars, thread_vars, ret>>

TickCache == Tick(CacheTimePoints)

InitCache ==
    /\ now = 0
    /\ ret = NoCall
    /\ InitHttp
    /\ InitCacheManager
    /\ InitRateLimiter(RateLimitConfig(60, 1000, 10, TRUE))

\* The calls a client makes, with (tenant, key) drawn from P, the value from V
\* and the timeout from T.
CacheCall(P, V, T) ==
    \/ \E p \in P : Get(p[1], p[2])
    \/ \E p \in P, v \in V, timeout \in T : Set(p[1], p[2], v, timeout)
    \/ \E p \in P : Delete(p[1], p[2])
    \/ \E d \in {p[1] : p \in P} : ClearDomainCache(d)
    \/ \E d \in {p[1] : p \in P} : GetCacheStats(d)

Sweep ==
    \/ SweepStart
    \/ \E d \in Domains : SweepDomain(d)
    \/ SweepSleep

NextCache ==
    \/ ret.seq < MaxOps /\ CacheCall(CallArgs, Values, Timeouts)
    \/ Sweep
    \/ TickCache

SpecCache == InitCache /\ [][NextCache]_vars

\* One tenant with two keys.
NextCacheKeys ==
    \/ ret.seq < MaxOps /\ CacheCall(KeysCallArgs, Values, Timeouts)
    \/ Sweep
    \/ TickCache

SpecCacheKeys == InitCache /\ [][NextCacheKeys]_vars

\* The key derivation called on its own, as get, set and delete call it before
\* they take the tenant's lock.
GetCacheKey(d, k) ==
    /\ Returned("_get_cache_key", d, k, _get_cache_key(d, k))
    /\ UNCHANGED <<now, http_vars, cache_vars, rl_vars, thread_vars>>

NextKeyDerivation ==
    \/ ret.seq < MaxDeepOps /\ \E p \in KeyDerivationArgs : GetCacheKey(p[1], p[2])
    \/ TickCache

SpecKeyDerivation == InitCache /\ [][NextKeyDerivation]_vars

\* One tenant and one key, with more calls in a behaviour.
NextCacheDeep ==
    \/ ret.seq < MaxDeepOps /\ CacheCall(DeepCallArgs, DeepValues, Timeouts)
    \/ Sweep
    \/ TickCache

SpecCacheDeep == InitCache /\ [][NextCacheDeep]_vars

\* One tenant and one key, with every way of choosing the lifetime.
NextCacheTTL ==
    \/ ret.seq < MaxOps /\ CacheCall(DeepCallArgs, DeepValues, TTLTimeouts)
    \/ ret.seq < MaxOps /\ \E p \in DeepCallArgs, v \in DeepValues, c \in ConfigTimeouts :
                              SetWithDomainConfig(p[1], p[2], v, DomainConfig(c))
    \/ Sweep
    \/ Tick(TTLTimePoints)

SpecCacheTTL == InitCache /\ [][NextCacheTTL]_vars

\* Two tenants written and read, and a shutdown with no call made once it has
\* begun.  The thread that runs shutdown keeps being scheduled (each of its
\* steps changes shutdown_vars).
NextShutdown ==
    \/ ret.seq < MaxOps /\ shutdown_pc = "idle" /\ \E p \in CallArgs : Get(p[1], p[2])
    \/ ret.seq < MaxOps /\ shutdown_pc = "idle"
          /\ \E p \in CallArgs, v \in DeepValues, timeout \in AdminTimeouts :
                Set(p[1], p[2], v, timeout)
    \/ Shutdown
    \/ Sweep
    \/ SweepExit
    \/ TickShutdown

SpecShutdown ==
    /\ InitCache
    /\ [][NextShutdown]_vars
    /\ WF_shutdown_vars(ShutdownJoin)
    /\ WF_shutdown_vars(\E d \in Domains : ShutdownClear(d))
    /\ WF_shutdown_vars(ShutdownReturn)

\* Every call on two keys of one tenant, together with the cleanup thread and
\* a shutdown, calls being made before, during and after the shutdown.
NextCounters ==
    \/ ret.seq < MaxOps /\ CacheCall(KeysCallArgs, DeepValues, Timeouts)
    \/ Shutdown
    \/ Sweep
    \/ SweepExit
    \/ TickShutdown

SpecCounters == InitCache /\ [][NextCounters]_vars

(***************************************************************************)
(* The cleanup thread at work while the manager is running: get and set    *)
(* calls on two tenants, the sweep and the clock.  The cleanup thread      *)
(* keeps being scheduled and the clock keeps advancing up to its last      *)
(* reading.                                                                *)
(***************************************************************************)
NextSweep ==
    \/ ret.seq < MaxOps /\ \E p \in CallArgs : Get(p[1], p[2])
    \/ ret.seq < MaxOps /\ \E p \in CallArgs, v \in DeepValues, timeout \in Timeouts :
                              Set(p[1], p[2], v, timeout)
    \/ Sweep
    \/ TickCache

SpecSweep ==
    /\ InitCache
    /\ [][NextSweep]_vars
    /\ WF_vars(SweepStart)
    /\ WF_vars(\E d \in Domains : SweepDomain(d))
    /\ WF_vars(SweepSleep)
    /\ WF_vars(TickCache)

(***************************************************************************)
(* The cleanup thread when the visit of a tenant fails.  An exception      *)
(* raised inside the loop of _cleanup_expired_entries leaves the function, *)
(* which has no handler; cleanup_worker catches it, logs it and goes back  *)
(* to the test of its while loop without sleeping: the tenants not yet     *)
(* visited are dropped with the cycle's list and the next cycle can start  *)
(* at once.  The exception is an input of the model.                       *)
(***************************************************************************)
SweepRaise(d) ==
    /\ sweep_pc = "run"
    /\ d \in sweep_todo
    /\ sweep_pc' = "sleep"
    /\ sweep_todo' = {}
    /\ UNCHANGED <<now, http_vars, shutdown_vars, caches, stats, sweep_wake, ref, obs,
                   rl_vars, thread_vars, ret>>

NextSweepFault ==
    \/ ret.seq < MaxOps /\ \E p \in CallArgs : Get(p[1], p[2])
    \/ ret.seq < MaxOps /\ \E p \in CallArgs, v \in DeepValues, timeout \in Timeouts :
                              Set(p[1], p[2], v, timeout)
    \/ Sweep
    \/ \E d \in Domains : SweepRaise(d)
    \/ TickCache

SpecSweepFault == InitCache /\ [][NextSweepFault]_vars

(***************************************************************************)
(* The rate limiter's operations as atomic steps: each runs under          *)
(* RateLimiter.lock.                                                       *)
(***************************************************************************)
BurstOf(d) == DefaultGet(domain_burst_requests, d, << >>)
MinuteOf(d) == DefaultGet(domain_requests, d, << >>)
HourlyOf(d) == DefaultGet(domain_hourly_requests, d, << >>)

\* Mutant: one set of windows is shared by all tenants.
StoreWindowsShared(d, r) ==
    /\ domain_burst_requests' = [T \in Domains \cup {d} |-> r.burst]
    /\ domain_requests' = [T \in Domains \cup {d} |-> r.minute]
    /\ domain_hourly_requests' = [T \in Domains \cup {d} |-> r.hourly]

StoreWindows(d, r) ==
    /\ domain_burst_requests' = DictSet(domain_burst_requests, d, r.burst)
    /\ domain_requests' = DictSet(domain_requests, d, r.minute)
    /\ domain_hourly_requests' = DictSet(domain_hourly_requests, d, r.hourly)

UnchangedWindows == UNCHANGED <<domain_requests, domain_hourly_requests, domain_burst_requests>>

Allowed == [allowed |-> TRUE, reason |-> NoneVal]

\* Mutant: the limits are applied whether or not rate limiting is enabled.
IsAllowedIgnoringEnabled(d) ==
    /\ LET r == is_allowed(BurstOf(d), MinuteOf(d), HourlyOf(d), config, d, now) IN
            /\ StoreWindows(d, r)
            /\ Returned("is_allowed", d, << >>, [allowed |-> r.allowed, reason |-> r.reason])
    /\ UNCHANGED <<now, http_vars, cache_vars, config, thread_vars>>

IsAllowed(d) ==
    /\ IF ~config.enabled
       THEN /\ Returned("is_allowed", d, << >>, Allowed)
            /\ UnchangedWindows
       ELSE LET r == is_allowed(BurstOf(d), MinuteOf(d), HourlyOf(d), config, d, now) IN
            /\ StoreWindows(d, r)
            /\ Returned("is_allowed", d, << >>, [allowed |-> r.allowed, reason |-> r.reason])
    /\ UNCHANGED <<now, http_vars, cache_vars, config, thread_vars>>

GetStats(d) ==
    /\ LET r == get_stats(BurstOf(d), MinuteOf(d), HourlyOf(d), config, now) IN
        /\ StoreWindows(d, r)
        /\ Returned("get_stats", d, << >>, r.value)
    /\ UNCHANGED <<now, http_vars, cache_vars, config, thread_vars>>

\* Mutant: the reset leaves the hourly window as it is.
ResetMinuteAndBurstOnly(d) ==
    /\ StoreWindows(d, [burst |-> << >>, minute |-> << >>, hourly |-> HourlyOf(d)])
    /\ Returned("reset_domain_limits", d, << >>, NoneVal)
    /\ UNCHANGED <<now, http_vars, cache_vars, config, thread_vars>>

ResetDomainLimits(d) ==
    /\ StoreWindows(d, [burst |-> << >>, minute |-> << >>, hourly |-> << >>])
    /\ Returned("reset_domain_limits", d, << >>, NoneVal)
    /\ UNCHANGED <<now, http_vars, cache_vars, config, thread_vars>>

TickRL == Tick(RLTimePoints)

Limits == 0..MaxLimit
Configs == {RateLimitConfig(rpm, rph, burst, enabled) :
               rpm \in Limits, rph \in Limits, burst \in Limits, enabled \in BOOLEAN}

InitRL ==
    /\ now = 0
    /\ ret = NoCall
    /\ InitHttp
    /\ InitCacheManager
    /\ \E cfg \in Configs : InitRateLimiter(cfg)

NextRL ==
    \/ ret.seq < MaxRLOps /\ \E d \in Domains : IsAllowed(d)
    \/ ret.seq < MaxRLOps /\ \E d \in Domains : GetStats(d)
    \/ ret.seq < MaxRLOps /\ \E d \in Domains : ResetDomainLimits(d)
    \/ TickRL

SpecRL == InitRL /\ [][NextRL]_vars

(***************************************************************************)
(* The administrative surface: the cache's calls on a tenant and on the    *)
(* empty tenant id, the queries over all tenants, and is_allowed.          *)
(***************************************************************************)
NextCacheAdmin ==
    \/ ret.seq < MaxOps /\ CacheCall(AdminCallArgs, DeepValues, AdminTimeouts)
    \/ ret.seq < MaxOps /\ GetAllCacheStats
    \/ ret.seq < MaxOps /\ GetTotalCacheSize
    \/ ret.seq < MaxOps /\ \E d \in Domains : GetDomainCacheSize(d)
    \/ ret.seq < MaxOps /\ \E d \in Domains : ListDomainKeys(d)
    \/ ret.seq < MaxOps /\ \E d \in {p[1] : p \in AdminCallArgs} : IsAllowed(d)
    \/ Sweep
    \/ TickCache

SpecCacheAdmin == InitCache /\ [][NextCacheAdmin]_vars

(***************************************************************************)
(* is_allowed called by concurrent request threads, one call per thread.   *)
(* A thread tests config.enabled and reads the clock, then takes the lock, *)
(* cleans and checks the limits, and, when none is reached, appends its    *)
(* timestamp to the three windows; it releases the lock when it returns.   *)
(***************************************************************************)
Begin(t, d) ==
    /\ pc[t] = "idle"
    /\ IF ~config.enabled
       THEN /\ pc' = [pc EXCEPT ![t] = "done"]
            /\ result' = [result EXCEPT ![t] = Allowed]
            /\ call' = [call EXCEPT ![t].domain = d]
       ELSE /\ pc' = [pc EXCEPT ![t] = "wait"]
            /\ call' = [call EXCEPT ![t] = [domain |-> d, current_time |-> now]]
            /\ UNCHANGED result
    /\ UNCHANGED <<now, http_vars, cache_vars, rl_vars, lock, cache_thread_vars, ret>>

\* Mutant: the critical section is entered without waiting for the lock.
AcquireWithoutWaiting(t) ==
    /\ pc[t] = "wait"
    /\ lock' = {t}
    /\ pc' = [pc EXCEPT ![t] = "check"]
    /\ UNCHANGED <<now, http_vars, cache_vars, rl_vars, call, result, cache_thread_vars, ret>>

Acquire(t) ==
    /\ pc[t] = "wait"
    /\ lock = {}
    /\ lock' = {t}
    /\ pc' = [pc EXCEPT ![t] = "check"]
    /\ UNCHANGED <<now, http_vars, cache_vars, rl_vars, call, result, cache_thread_vars, ret>>

CheckLimits(t) ==
    /\ pc[t] = "check"
    /\ LET d == call[t].domain
           c == check_limits(BurstOf(d), MinuteOf(d), HourlyOf(d), config, d,
                             call[t].current_time)
       IN /\ StoreWindows(d, c)
          /\ IF c.allowed
             THEN /\ pc' = [pc EXCEPT ![t] = "record"]
                  /\ UNCHANGED <<lock, result>>
             ELSE /\ pc' = [pc EXCEPT ![t] = "done"]
                  /\ result' = [result EXCEPT ![t] = [allowed |-> FALSE, reason |-> c.reason]]
                  /\ lock' = {}
    /\ UNCHANGED <<now, http_vars, cache_vars, config, call, cache_thread_vars, ret>>

RecordRequest(t) ==
    /\ pc[t] = "record"
    /\ LET d == call[t].domain IN
          StoreWindows(d, record_request(BurstOf(d), MinuteOf(d), HourlyOf(d),
                                         call[t].current_time))
    /\ result' = [result EXCEPT ![t] = Allowed]
    /\ pc' = [pc EXCEPT ![t] = "done"]
    /\ lock' = {}
    /\ UNCHANGED <<now, http_vars, cache_vars, config, call, cache_thread_vars, ret>>

TickConc == Tick(ConcTimePoints)

NextRLConc ==
    \/ \E t \in Threads, d \in Domains : Begin(t, d)
    \/ \E t \in Threads : Acquire(t)
    \/ \E t \in Threads : CheckLimits(t)
    \/ \E t \in Threads : RecordRequest(t)
    \/ TickConc

SpecRLConc == InitRL /\ [][NextRLConc]_vars

(***************************************************************************)
(* get_stats called while request threads are inside is_allowed: the call  *)
(* reads the clock and takes the lock when no thread holds it, so that its *)
(* clock reading is the one at which it cleans the windows.                *)
(***************************************************************************)
GetStatsConc(d) ==
    /\ lock = {}
    /\ GetStats(d)

NextRLStats ==
    \/ \E t \in Threads, d \in Domains : Begin(t, d)
    \/ \E t \in Threads : Acquire(t)
    \/ \E t \in Threads : CheckLimits(t)
    \/ \E t \in Threads : RecordRequest(t)
    \/ ret.seq < MaxRLOps /\ \E d \in Domains : GetStatsConc(d)
    \/ TickConc

SpecRLStats == InitRL /\ [][NextRLStats]_vars

(***************************************************************************)
(* is_allowed under the limits RateLimitConfig has by default for the      *)
(* minute and the hour, and a small burst limit.  Besides the request      *)
(* threads, which may wait between reading the clock and taking the lock,  *)
(* further calls run from the clock reading to the release of the lock     *)
(* without another thread in between.                                      *)
(***************************************************************************)
DefaultRequestsPerMinute == 60
DefaultRequestsPerHour == 1000

InitRLBurst ==
    /\ now = 0
    /\ ret = NoCall
    /\ InitHttp
    /\ InitCacheManager
    /\ \E burst \in Limits, enabled \in BOOLEAN :
          InitRateLimiter(RateLimitConfig(DefaultRequestsPerMinute,
                                          DefaultRequestsPerHour, burst, enabled))

IsAllowedConc(d) ==
    /\ lock = {}
    /\ IsAllowed(d)

NextRLBurst ==
    \/ \E t \in Threads, d \in Domains : Begin(t, d)
    \/ \E t \in Threads : Acquire(t)
    \/ \E t \in Threads : CheckLimits(t)
    \/ \E t \in Threads : RecordRequest(t)
    \/ ret.seq < MaxRLOps /\ \E d \in Domains : IsAllowedConc(d)
    \/ TickConc

SpecRLBurst == InitRLBurst /\ [][NextRLBurst]_vars

(***************************************************************************)
(* The cache used by concurrent threads: the request threads, one call     *)
(* per thread, and the cleanup thread.  Every operation on a tenant runs   *)
(*     with self._locks[domain]:  <body>                                   *)
(* and _locks is a defaultdict(threading.RLock).  A thread looks the       *)
(* tenant up in _locks; when the tenant is missing, __missing__ calls the  *)
(* factory threading.RLock, a Python function during which other threads   *)
(* run, and then stores the new lock under the tenant, replacing whatever  *)
(* is stored there.  The thread then acquires the lock it obtained, runs   *)
(* the body and releases the lock.  Locks are numbered in the order of     *)
(* their creation.  The body is one step: while a single thread is inside, *)
(* no other thread can observe its intermediate states.                    *)
(***************************************************************************)
ConcCacheTimePoints == {0, TickStep}
ConcCacheOps == {"get", "set", "delete", "clear_domain_cache", "get_cache_stats"}
ConcKey == <<"k">>
ConcValue == <<"x">>

\* A request thread enters its operation; set reads the clock before it takes
\* the lock.
CBegin(t, op, d, v) ==
    /\ cpc[t] = "idle"
    /\ t \in Threads
    /\ cpc' = [cpc EXCEPT ![t] = "lookup"]
    /\ ccall' = [ccall EXCEPT ![t] = [NoCacheCall EXCEPT !.op = op, !.domain = d,
                                                         !.key = ConcKey, !.value = v,
                                                         !.current_time = Some(now)]]
    /\ UNCHANGED <<now, http_vars, cache_vars, rl_vars, lock, pc, call, result,
                   _locks, lock_holder, locks_created, cresult,
                   _cache_manager_instance, managers_created, iter, ret>>

\* cleanup_worker begins a cycle: list(self._caches.keys()).
CSweepBegin ==
    /\ cpc[CleanupThread] = "idle"
    /\ _running
    /\ now >= sweep_wake
    /\ cpc' = [cpc EXCEPT ![CleanupThread] = "next"]
    /\ ccall' = [ccall EXCEPT ![CleanupThread] =
                    [NoCacheCall EXCEPT !.op = "_cleanup_expired_entries",
                                        !.todo = DOMAIN caches]]
    /\ UNCHANGED <<now, http_vars, cache_vars, rl_vars, lock, pc, call, result,
                   _locks, lock_holder, locks_created, cresult,
                   _cache_manager_instance, managers_created, iter, ret>>

\* The cycle's loop takes the next tenant of its list, or sleeps at its end.
CSweepNext ==
    /\ cpc[CleanupThread] = "next"
    /\ IF ccall[CleanupThread].todo = {}
       THEN /\ cpc' = [cpc EXCEPT ![CleanupThread] = "idle"]
            /\ sweep_wake' = now + cleanup_interval
            /\ UNCHANGED ccall
       ELSE /\ \E d \in ccall[CleanupThread].todo :
                 ccall' = [ccall EXCEPT ![CleanupThread].domain = d,
                                        ![CleanupThread].todo = @ \ {d}]
            /\ cpc' = [cpc EXCEPT ![CleanupThread] = "lookup"]
            /\ UNCHANGED sweep_wake
    /\ UNCHANGED <<now, http_vars, shutdown_vars, caches, stats, sweep_pc, sweep_todo,
                   ref, obs, rl_vars, lock, pc, call, result,
                   _locks, lock_holder, locks_created, cresult,
                   _cache_manager_instance, managers_created, iter, ret>>

\* Mutant: one lock serves every tenant; a thread takes the lock stored for
\* any tenant when there is one.
CLookupAnyTenant(t) ==
    /\ cpc[t] = "lookup"
    /\ IF DOMAIN _locks # {}
       THEN /\ \E d \in DOMAIN _locks : ccall' = [ccall EXCEPT ![t].lock = _locks[d]]
            /\ cpc' = [cpc EXCEPT ![t] = "acquire"]
       ELSE /\ cpc' = [cpc EXCEPT ![t] = "missing"]
            /\ UNCHANGED ccall
    /\ UNCHANGED <<now, http_vars, cache_vars, rl_vars, lock, pc, call, result,
                   _locks, lock_holder, locks_created, cresult,
                   _cache_manager_instance, managers_created, iter, ret>>

\* self._locks[domain]: the tenant's lock when one is stored, otherwise
\* __missing__ is entered.
CLookup(t) ==
    /\ cpc[t] = "lookup"
    /\ IF ccall[t].domain \in DOMAIN _locks
       THEN /\ ccall' = [ccall EXCEPT ![t].lock = _locks[ccall[t].domain]]
            /\ cpc' = [cpc EXCEPT ![t] = "acquire"]
       ELSE /\ cpc' = [cpc EXCEPT ![t] = "missing"]
            /\ UNCHANGED ccall
    /\ UNCHANGED <<now, http_vars, cache_vars, rl_vars, lock, pc, call, result,
                   _locks, lock_holder, locks_created, cresult,
                   _cache_manager_instance, managers_created, iter, ret>>

\* __missing__: the factory has made a new RLock; it is stored under the
\* tenant and is the lock this thread goes on to acquire.
CMissing(t) ==
    /\ cpc[t] = "missing"
    /\ locks_created' = locks_created + 1
    /\ _locks' = DictSet(_locks, ccall[t].domain, locks_created')
    /\ ccall' = [ccall EXCEPT ![t].lock = locks_created']
    /\ cpc' = [cpc EXCEPT ![t] = "acquire"]
    /\ UNCHANGED <<now, http_vars, cache_vars, rl_vars, lock, pc, call, result,
                   lock_holder, cresult,
                   _cache_manager_instance, managers_created, iter, ret>>

\* RLock.acquire(): waits while another thread holds the lock.  ccall[t].order
\* records the order in which the threads acquired their locks.
CAcquire(t) ==
    /\ cpc[t] = "acquire"
    /\ ccall[t].lock \notin DOMAIN lock_holder
    /\ lock_holder' = DictSet(lock_holder, ccall[t].lock, t)
    /\ ccall' = [ccall EXCEPT ![t].order =
                    1 + SetMax({ccall[u].order : u \in CacheThreads})]
    /\ cpc' = [cpc EXCEPT ![t] = "inside"]
    /\ UNCHANGED <<now, http_vars, cache_vars, rl_vars, lock, pc, call, result,
                   _locks, locks_created, cresult,
                   _cache_manager_instance, managers_created, iter, ret>>

\* What the body of the operation of thread t does to its tenant.
CBodyResult(t) ==
    LET c == ccall[t]
        d == c.domain
    IN CASE c.op = "get" -> get(CacheOf(d), StatsOf(d), d, c.key, now)
         [] c.op = "set" -> set(CacheOf(d), StatsOf(d), d, c.key, c.value, Some(0),
                                The(c.current_time))
         [] c.op = "delete" -> delete(CacheOf(d), StatsOf(d), d, c.key)
         [] c.op = "clear_domain_cache" -> clear_domain_cache(CacheOf(d), StatsOf(d), d)
         [] c.op = "get_cache_stats" -> get_cache_stats(CacheOf(d), StatsOf(d), d)
         [] c.op = "_cleanup_expired_entries" ->
                LET r == _cleanup_expired_entries(CacheOf(d), StatsOf(d), d, now)
                IN [r EXCEPT !.stats = IF r.value > 0 THEN r.stats ELSE StatsOf(d)]

\* The body, run while holding the lock.
CBody(t) ==
    /\ cpc[t] = "inside"
    /\ LET r == CBodyResult(t)
           d == ccall[t].domain
       IN /\ caches' = DictSet(caches, d, r.cache)
          /\ stats' = IF ccall[t].op = "_cleanup_expired_entries" /\ r.value = 0
                      THEN stats ELSE DictSet(stats, d, r.stats)
          /\ cresult' = [cresult EXCEPT ![t] = Some(r.value)]
    /\ cpc' = [cpc EXCEPT ![t] = "release"]
    /\ UNCHANGED <<now, http_vars, shutdown_vars, sweep_pc, sweep_todo, sweep_wake,
                   ref, obs, rl_vars, lock, pc, call, result,
                   _locks, lock_holder, locks_created, ccall,
                   _cache_manager_instance, managers_created, iter, ret>>

\* Leaving the with block releases the lock; a request thread has returned
\* cresult, the cleanup thread goes on with its loop.
CRelease(t) ==
    /\ cpc[t] = "release"
    /\ lock_holder' = DictDel(lock_holder, ccall[t].lock)
    /\ cpc' = [cpc EXCEPT ![t] = IF t = CleanupThread THEN "next" ELSE "done"]
    /\ UNCHANGED <<now, http_vars, cache_vars, rl_vars, lock, pc, call, result,
                   _locks, locks_created, ccall, cresult,
                   _cache_manager_instance, managers_created, iter, ret>>

TickCacheConc == Tick(ConcCacheTimePoints)

NextCacheConc ==
    \/ \E t \in Threads, op \in ConcCacheOps, d \in Domains :
                                 CBegin(t, op, d, ConcValue)
    \/ CSweepBegin
    \/ CSweepNext
    \/ \E t \in CacheThreads : CLookup(t)
    \/ \E t \in CacheThreads : CMissing(t)
    \/ \E t \in CacheThreads : CAcquire(t)
    \/ \E t \in CacheThreads : CBody(t)
    \/ \E t \in CacheThreads : CRelease(t)
    \/ TickCacheConc

SpecCacheConc == InitCache /\ [][NextCacheConc]_vars

\* Concurrent set calls, one per request thread, with different values.
NextSetConc ==
    \/ \E t \in Threads, d \in Domains, v \in Values : CBegin(t, "set", d, v)
    \/ \E t \in Threads : CLookup(t)
    \/ \E t \in Threads : CMissing(t)
    \/ \E t \in Threads : CAcquire(t)
    \/ \E t \in Threads : CBody(t)
    \/ \E t \in Threads : CRelease(t)
    \/ TickCacheConc

SpecSetConc == InitCache /\ [][NextSetConc]_vars

(***************************************************************************)
(* get_cache_manager() called by concurrent threads.  A call tests the     *)
(* module global, constructs a DomainCacheManager and assigns it when the  *)
(* global was None, and returns what the global holds then.  Managers are  *)
(* numbered in the order of their construction; the constructor of each    *)
(* starts one cleanup thread.                                              *)
(***************************************************************************)
GBegin(t) ==
    /\ cpc[t] = "idle"
    /\ cpc' = [cpc EXCEPT ![t] = "test"]
    /\ UNCHANGED <<now, http_vars, cache_vars, rl_vars, lock, pc, call, result,
                   _locks, lock_holder, locks_created, ccall, cresult,
                   _cache_manager_instance, managers_created, iter, ret>>

\* if _cache_manager_instance is None
GTest(t) ==
    /\ cpc[t] = "test"
    /\ cpc' = [cpc EXCEPT ![t] = IF _cache_manager_instance = NoneVal
                                 THEN "create" ELSE "return"]
    /\ UNCHANGED <<now, http_vars, cache_vars, rl_vars, lock, pc, call, result,
                   _locks, lock_holder, locks_created, ccall, cresult,
                   _cache_manager_instance, managers_created, iter, ret>>

\* DomainCacheManager(): a new manager, whose constructor starts its cleanup
\* thread.
GCreate(t) ==
    /\ cpc[t] = "create"
    /\ managers_created' = managers_created + 1
    /\ ccall' = [ccall EXCEPT ![t].instance = Some(managers_created')]
    /\ cpc' = [cpc EXCEPT ![t] = "assign"]
    /\ UNCHANGED <<now, http_vars, cache_vars, rl_vars, lock, pc, call, result,
                   _locks, lock_holder, locks_created, cresult,
                   _cache_manager_instance, iter, ret>>

\* _cache_manager_instance = <the new manager>
GAssign(t) ==
    /\ cpc[t] = "assign"
    /\ _cache_manager_instance' = ccall[t].instance
    /\ cpc' = [cpc EXCEPT ![t] = "return"]
    /\ UNCHANGED <<now, http_vars, cache_vars, rl_vars, lock, pc, call, result,
                   _locks, lock_holder, locks_created, ccall, cresult,
                   managers_created, iter, ret>>

\* return _cache_manager_instance
GReturn(t) ==
    /\ cpc[t] = "return"
    /\ cresult' = [cresult EXCEPT ![t] = _cache_manager_instance]
    /\ Returned("get_cache_manager", << >>, << >>, The(_cache_manager_instance))
    /\ cpc' = [cpc EXCEPT ![t] = "idle"]
    /\ ccall' = [ccall EXCEPT ![t] = NoCacheCall]
    /\ UNCHANGED <<now, http_vars, cache_vars, rl_vars, lock, pc, call, result,
                   _locks, lock_holder, locks_created,
                   _cache_manager_instance, managers_created, iter>>

NextSingleton ==
    \/ \E t \in Threads :
          ret.seq + Cardinality({u \in Threads : cpc[u] # "idle"}) < MaxOps /\ GBegin(t)
    \/ \E t \in Threads : GTest(t)
    \/ \E t \in Threads : GCreate(t)
    \/ \E t \in Threads : GAssign(t)
    \/ \E t \in Threads : GReturn(t)

SpecSingleton == InitCache /\ [][NextSingleton]_vars

(***************************************************************************)
(* get_all_cache_stats() and get_total_cache_size() run by one thread      *)
(* while another thread calls get and set.  Both iterate over the live     *)
(* key view of a dict: the iterator notes the dict's size when the loop    *)
(* starts, and each time the loop asks for the next tenant it raises       *)
(*     RuntimeError: dictionary changed size during iteration              *)
(* when the size differs from the one noted; otherwise it yields a tenant  *)
(* not yet visited, or ends the loop.  iter.began is the set of tenants    *)
(* present when the call began.                                            *)
(***************************************************************************)
IterOps == {"get_all_cache_stats", "get_total_cache_size"}

IterBegin(op) ==
    /\ iter.pc = "idle"
    /\ iter' = [NoIteration EXCEPT !.pc = "caches", !.op = op,
                                   !.began = (DOMAIN caches) \cup (DOMAIN stats)]
    /\ UNCHANGED <<now, http_vars, cache_vars, rl_vars, lock, pc, call, result,
                   _locks, lock_holder, locks_created, cpc, ccall, cresult,
                   _cache_manager_instance, managers_created, ret>>

\* The call ends with RuntimeError.
IterRaise ==
    /\ Raised(iter.op, << >>, << >>, "RuntimeError")
    /\ iter' = [iter EXCEPT !.pc = "idle"]
    /\ UNCHANGED <<caches, stats>>

\* for domain in self._caches.keys(): one turn of the loop, with its body.
IterNextCaches ==
    /\ iter.pc = "caches"
    /\ LET used == IF iter.used = NoneVal THEN Cardinality(DOMAIN caches)
                   ELSE The(iter.used)
       IN IF Cardinality(DOMAIN caches) # used
          THEN IterRaise
          ELSE IF iter.yielded = DOMAIN caches
          THEN IF iter.op = "get_total_cache_size"
               THEN /\ Returned(iter.op, << >>, << >>, iter.total)
                    /\ iter' = [iter EXCEPT !.pc = "idle"]
                    /\ UNCHANGED <<caches, stats>>
               ELSE /\ iter' = [iter EXCEPT !.pc = "stats", !.used = NoneVal,
                                            !.yielded = {}]
                    /\ UNCHANGED <<caches, stats, ret>>
          ELSE \E d \in (DOMAIN caches) \ iter.yielded :
                  IF iter.op = "get_total_cache_size"
                  THEN /\ iter' = [iter EXCEPT !.used = Some(used),
                                               !.yielded = @ \cup {d},
                                               !.total = @ + get_domain_cache_size(caches[d])]
                       /\ UNCHANGED <<caches, stats, ret>>
                  ELSE LET r == get_cache_stats(CacheOf(d), StatsOf(d), d) IN
                       /\ Store(d, r)
                       /\ iter' = [iter EXCEPT !.used = Some(used),
                                               !.yielded = @ \cup {d},
                                               !.all_stats = DictSet(@, d, r.value)]
                       /\ UNCHANGED ret
    /\ UNCHANGED <<now, http_vars, shutdown_vars, sweep_pc, sweep_todo, sweep_wake,
                   ref, obs, rl_vars, lock, pc, call, result,
                   _locks, lock_holder, locks_created, cpc, ccall, cresult,
                   _cache_manager_instance, managers_created>>

\* for domain in self._stats.keys(): one turn of the loop, with its body.
IterNextStats ==
    /\ iter.pc = "stats"
    /\ LET used == IF iter.used = NoneVal THEN Cardinality(DOMAIN stats)
                   ELSE The(iter.used)
       IN IF Cardinality(DOMAIN stats) # used
          THEN IterRaise
          ELSE IF iter.yielded = DOMAIN stats
          THEN /\ Returned(iter.op, << >>, << >>, iter.all_stats)
               /\ iter' = [iter EXCEPT !.pc = "idle"]
               /\ UNCHANGED <<caches, stats>>
          ELSE \E d \in (DOMAIN stats) \ iter.yielded :
                  IF d \notin DOMAIN iter.all_stats
                  THEN LET r == get_cache_stats(CacheOf(d), StatsOf(d), d) IN
                       /\ Store(d, r)
                       /\ iter' = [iter EXCEPT !.used = Some(used),
                                               !.yielded = @ \cup {d},
                                               !.all_stats = DictSet(@, d, r.value)]
                       /\ UNCHANGED ret
                  ELSE /\ iter' = [iter EXCEPT !.used = Some(used),
                                               !.yielded = @ \cup {d}]
                       /\ UNCHANGED <<caches, stats, ret>>
    /\ UNCHANGED <<now, http_vars, shutdown_vars, sweep_pc, sweep_todo, sweep_wake,
                   ref, obs, rl_vars, lock, pc, call, result,
                   _locks, lock_holder, locks_created, cpc, ccall, cresult,
                   _cache_manager_instance, managers_created>>

NextIter ==
    \/ ret.seq < MaxOps /\ \E p \in CallArgs : Get(p[1], p[2])
    \/ ret.seq < MaxOps /\ \E p \in CallArgs, v \in Values : Set(p[1], p[2], v, NoneVal)
    \/ ret.seq < MaxOps /\ \E op \in IterOps : IterBegin(op)
    \/ IterNextCaches
    \/ IterNextStats

SpecIter == InitCache /\ [][NextIter]_vars

(***************************************************************************)
(* Tenant resolution (DomainResolverMiddleware).  A string is a tuple of   *)
(* one-character strings.  The request gives, for the query parameter      *)
(* domain, the X-Domain header and the Host header, either None or the raw *)
(* string sent.                                                            *)
(***************************************************************************)
UpperLetters == <<"A", "B", "C", "D", "E", "F", "G", "H", "I", "J", "K", "L", 
    "M", "N", "O", "P", "Q", "R", "S", "T", "U", "V", "W", "X", "Y", "Z">>
LowerLetters == <<"a", "b", "c", "d", "e", "f", "g", "h", "i", "j", "k", "l", 
    "m", "n", "o", "p", "q", "r", "s", "t", "u", "v", "w", "x", "y", "z">>
UpperChars == {UpperLetters[i] : i \in 1..Len(UpperLetters)}
LowerChars == {LowerLetters[i] : i \in 1..Len(LowerLetters)}
DigitChars == {"0", "1", "2", "3", "4", "5", "6", "7", "8", "9"}
\* The characters str.strip() removes.
Whitespace == {" ", "\n"}

\* str.lower(), one character at a time.
lower_char(c) ==
    IF c \in UpperChars
    THEN LowerLetters[CHOOSE i \in 1..Len(UpperLetters) : UpperLetters[i] = c]
    ELSE c

RECURSIVE lower(_)
lower(s) == IF s = << >> THEN << >> ELSE <<lower_char(Head(s))>> \o lower(Tail(s))

RECURSIVE lstrip(_)
lstrip(s) == IF s # << >> /\ Head(s) \in Whitespace THEN lstrip(Tail(s)) ELSE s

RECURSIVE rstrip(_)
rstrip(s) ==
    IF s # << >> /\ s[Len(s)] \in Whitespace THEN rstrip(SubSeq(s, 1, Len(s) - 1)) ELSE s

\* str.strip(): leading and trailing whitespace removed.
strip(s) == rstrip(lstrip(s))

\* s.split(sep)[0]: the part of s before the first sep, all of s without one.
RECURSIVE split_first(_, _)
split_first(s, sep) ==
    IF s = << >> \/ Head(s) = sep THEN << >> ELSE <<Head(s)>> \o split_first(Tail(s), sep)

startswith(s, c) == s # << >> /\ Head(s) = c
endswith(s, c) == s # << >> /\ s[Len(s)] = c
\* The two-character string cc occurs in s.
contains_twice(s, c) == \E i \in 1..(Len(s) - 1) : s[i] = c /\ s[i + 1] = c

\* re.match(r'^[a-zA-Z0-9.-]+$', s): one or more characters of the class;
\* the $ also matches just before a newline that ends the string.
domain_pattern_chars == UpperChars \cup LowerChars \cup DigitChars \cup {".", "-"}
match_domain_pattern(s) ==
    LET body == IF endswith(s, "\n") THEN SubSeq(s, 1, Len(s) - 1) ELSE s
    IN  body # << >> /\ \A i \in 1..Len(body) : body[i] \in domain_pattern_chars

MaxDomainLength == 253

_is_valid_domain_format(domain) ==
    IF domain = << >> \/ Len(domain) > MaxDomainLength THEN FALSE
    ELSE IF ~match_domain_pattern(domain) THEN FALSE
    ELSE IF startswith(domain, ".") \/ endswith(domain, ".") THEN FALSE
    ELSE IF startswith(domain, "-") \/ endswith(domain, "-") THEN FALSE
    ELSE IF contains_twice(domain, ".") THEN FALSE
    ELSE IF contains_twice(domain, "-") THEN FALSE
    ELSE TRUE

ValueError(msg) == <<"ValueError", msg>>

\* Python's truth test of an Optional[str]: neither None nor the empty string.
Truthy(v) == v # NoneVal /\ The(v) # << >>

\* resolve_domain with the X-Domain header tried before the query parameter.
resolve_domain_header_first(request_obj) ==
    LET domain_param == request_obj.args_domain
        x_domain_header == request_obj.x_domain
        host_header == request_obj.host
    IN  IF ~Truthy(domain_param) /\ ~Truthy(x_domain_header) /\ ~Truthy(host_header)
        THEN [value |-> NoneVal, raised |-> Some(ValueError("No domain specified"))]
        ELSE LET domain ==
                   IF Truthy(x_domain_header) THEN strip(lower(The(x_domain_header)))
                   ELSE IF Truthy(domain_param) THEN strip(lower(The(domain_param)))
                   ELSE strip(lower(split_first(The(host_header), ":")))
             IN  IF domain = << >>
                 THEN [value |-> NoneVal,
                       raised |-> Some(ValueError("Invalid or empty domain"))]
                 ELSE IF ~_is_valid_domain_format(domain)
                 THEN [value |-> NoneVal,
                       raised |-> Some(ValueError("Invalid domain format"))]
                 ELSE [value |-> Some(domain), raised |-> NoneVal]

\* resolve_domain(request_obj): the tenant id, or the ValueError raised.
resolve_domain(request_obj) ==
    LET domain_param == request_obj.args_domain
        x_domain_header == request_obj.x_domain
        host_header == request_obj.host
    IN  IF ~Truthy(domain_param) /\ ~Truthy(x_domain_header) /\ ~Truthy(host_header)
        THEN [value |-> NoneVal, raised |-> Some(ValueError("No domain specified"))]
        ELSE LET domain ==
                   IF Truthy(domain_param) THEN strip(lower(The(domain_param)))
                   ELSE IF Truthy(x_domain_header) THEN strip(lower(The(x_domain_header)))
                   ELSE strip(lower(split_first(The(host_header), ":")))
             IN  IF domain = << >>
                 THEN [value |-> NoneVal,
                       raised |-> Some(ValueError("Invalid or empty domain"))]
                 ELSE IF ~_is_valid_domain_format(domain)
                 THEN [value |-> NoneVal,
                       raised |-> Some(ValueError("Invalid domain format"))]
                 ELSE [value |-> Some(domain), raised |-> NoneVal]

\* Raw strings a client can send in one source: empty, blank, plain, upper
\* case, padded, with a port, with a dot, malformed, and only a port.
RawStrings ==
    { << >>,
      <<" ">>,
      <<"a">>,
      <<"B">>,
      <<" ", "B", "\n">>,
      <<"a", ":", "8">>,
      <<"B", ".", "a", ":", "8">>,
      <<"-", "a">>,
      <<":", "8">>,
      <<"a", " ", ":", "8">> }

OptionalRaw == {NoneVal} \cup {Some(r) : r \in RawStrings}

Requests ==
    [args_domain : OptionalRaw, x_domain : OptionalRaw, host : OptionalRaw,
     path : {"/api/data"}, method : {"GET"}, is_secure : {FALSE}, content_length : {NoneVal}]

InitResolver ==
    /\ now = 0
    /\ ret = NoCall
    /\ request \in Requests
    /\ _domains = << >>
    /\ _default_config = NoneVal
    /\ whitelist = {}
    /\ require_https = FALSE
    /\ IdleGate
    /\ InitCacheManager
    /\ InitRateLimiter(RateLimitConfig(60, 1000, 10, TRUE))

\* One call of resolve_domain on the request.
ResolveDomain ==
    /\ LET r == resolve_domain(request)
       IN  ret' = [seq |-> ret.seq + 1, op |-> "resolve_domain", domain |-> << >>,
                   key |-> << >>, value |-> r.value, raised |-> r.raised]
    /\ UNCHANGED <<now, http_vars, cache_vars, rl_vars, thread_vars>>

NextResolver == ret.seq < MaxOps /\ ResolveDomain

SpecResolver == InitResolver /\ [][NextResolver]_vars

(***************************************************************************)
(* The whitelist validator (DomainWhitelistValidator).                     *)
(***************************************************************************)
MaxLabelLength == 63

\* s.split(sep): the parts of s between the occurrences of sep.
RECURSIVE split(_, _)
split(s, sep) ==
    LET first == split_first(s, sep)
    IN  IF Len(first) = Len(s) THEN <<first>>
        ELSE <<first>> \o split(SubSeq(s, Len(first) + 2, Len(s)), sep)

\* DomainWhitelistValidator._is_valid_domain_format(domain).
whitelist_is_valid_domain_format(domain) ==
    IF domain = << >> \/ Len(domain) > MaxDomainLength THEN FALSE
    ELSE IF ~match_domain_pattern(domain) THEN FALSE
    ELSE IF startswith(domain, ".") \/ endswith(domain, ".") THEN FALSE
    ELSE IF startswith(domain, "-") \/ endswith(domain, "-") THEN FALSE
    ELSE IF contains_twice(domain, ".") \/ contains_twice(domain, "-") THEN FALSE
    ELSE LET labels == split(domain, ".")
         IN  \A i \in 1..Len(labels) :
                /\ ~(labels[i] = << >> \/ Len(labels[i]) > MaxLabelLength)
                /\ ~(startswith(labels[i], "-") \/ endswith(labels[i], "-"))

\* s.endswith(suffix).
endswith_str(s, suffix) ==
    Len(suffix) <= Len(s) /\ SubSeq(s, Len(s) - Len(suffix) + 1, Len(s)) = suffix

\* DomainWhitelistValidator.is_domain_allowed(domain) on the whitelist wl.
is_domain_allowed(wl, domain) ==
    IF domain = << >> THEN FALSE
    ELSE LET normalized_domain == strip(lower(domain))
             normalized_whitelist == {strip(lower(d)) : d \in wl}
         IN  IF normalized_domain \in normalized_whitelist THEN TRUE
             ELSE \E whitelisted_domain \in normalized_whitelist :
                     /\ Len(whitelisted_domain) >= 2
                     /\ SubSeq(whitelisted_domain, 1, 2) = <<"*", ".">>
                     /\ LET pattern == SubSeq(whitelisted_domain, 3, Len(whitelisted_domain))
                        IN  \/ endswith_str(normalized_domain, <<".">> \o pattern)
                            \/ normalized_domain = pattern

\* DomainWhitelistValidator.validate_domain(domain): (is_valid, error_msg).
validate_domain(wl, domain) ==
    IF domain = << >>
    THEN [is_valid |-> FALSE, error_msg |-> Some(<<"Domain is required">>)]
    ELSE IF ~is_domain_allowed(wl, domain)
    THEN [is_valid |-> FALSE,
          error_msg |-> Some(<<"Domain '">> \o domain \o <<"' is not whitelisted">>)]
    ELSE IF ~whitelist_is_valid_domain_format(domain)
    THEN [is_valid |-> FALSE, error_msg |-> Some(<<"Invalid domain format: ">> \o domain)]
    ELSE [is_valid |-> TRUE, error_msg |-> NoneVal]

\* DomainWhitelistValidator.add_domain(domain): the whitelist afterwards.
add_domain(wl, domain) ==
    LET normalized_domain == strip(lower(domain))
    IN  wl \cup {normalized_domain}

\* DomainWhitelistValidator.remove_domain(domain): the whitelist afterwards.
remove_domain(wl, domain) ==
    LET normalized_domain == strip(lower(domain))
    IN  IF normalized_domain \in wl THEN wl \ {normalized_domain} ELSE wl

\* Entries a whitelist is built from (SecurityConfig.domain_whitelist or the
\* keys of domains.json) and tenant ids the validator is asked about.
WhitelistEntries == {<<"a">>, <<"B">>, <<"*", ".", "a">>}
WhitelistArgs ==
    {<< >>, <<" ">>, <<"a">>, <<"A">>, <<"b">>, <<" ", "b", " ">>, <<"b", ".", "a">>,
     <<"b", "a">>, <<"*", ".", "a">>}

InitWhitelist ==
    /\ now = 0
    /\ ret = NoCall
    /\ request = NoRequest
    /\ _domains = << >>
    /\ _default_config = NoneVal
    /\ whitelist \in SUBSET WhitelistEntries
    /\ require_https = FALSE
    /\ IdleGate
    /\ InitCacheManager
    /\ InitRateLimiter(RateLimitConfig(60, 1000, 10, TRUE))

UnchangedGate ==
    UNCHANGED <<request, _domains, _default_config, require_https, environ, g, response,
                gate_pc, handled, served, passed>>

IsDomainAllowed(domain) ==
    /\ Returned("is_domain_allowed", domain, << >>, is_domain_allowed(whitelist, domain))
    /\ UNCHANGED <<now, http_vars, cache_vars, rl_vars, thread_vars>>

AddDomain(domain) ==
    /\ whitelist' = add_domain(whitelist, domain)
    /\ Returned("add_domain", domain, << >>, NoneVal)
    /\ UnchangedGate
    /\ UNCHANGED <<now, cache_vars, rl_vars, thread_vars>>

RemoveDomain(domain) ==
    /\ whitelist' = remove_domain(whitelist, domain)
    /\ Returned("remove_domain", domain, << >>, NoneVal)
    /\ UnchangedGate
    /\ UNCHANGED <<now, cache_vars, rl_vars, thread_vars>>

NextWhitelist ==
    \/ ret.seq < MaxOps /\ \E domain \in WhitelistArgs : IsDomainAllowed(domain)
    \/ ret.seq < MaxOps /\ \E domain \in WhitelistArgs : AddDomain(domain)
    \/ ret.seq < MaxOps /\ \E domain \in WhitelistArgs : RemoveDomain(domain)

SpecWhitelist == InitWhitelist /\ [][NextWhitelist]_vars

\* The string of n characters c.
Repeat(c, n) == [i \in 1..n |-> c]

\* Strings given to the two format validators: every string of one to three
\* characters over a letter, a capital, a digit, the dot, the hyphen, the
\* underscore and the newline, and strings at the length limits.
FormatAlphabet == {"a", "B", "8", ".", "-", "_", "\n"}
ShortStrings ==
    UNION {[1..n -> FormatAlphabet] : n \in 1..3}
LongStrings ==
    { << >>,
      <<"a", ".", ".", "b">>,
      <<"-", "a", ".", "c", "o", "m">>,
      <<"a", ".", "c", "o", "m", "-">>,
      <<"v", "a", "l", "i", "d", "-", "d", "o", "m", "a", "i", "n", ".",
        "e", "x", "a", "m", "p", "l", "e", ".", "c", "o", "m">>,
      Repeat("a", 300),
      Repeat("a", MaxLabelLength) \o <<".", "a">>,
      Repeat("a", MaxLabelLength + 1) \o <<".", "a">>,
      Repeat("a", MaxLabelLength + 1),
      Repeat("a", MaxLabelLength) \o <<".">> \o Repeat("b", MaxLabelLength) \o <<".">>
         \o Repeat("c", MaxLabelLength) \o <<".">> \o Repeat("d", MaxDomainLength - 192),
      Repeat("a", MaxLabelLength) \o <<".">> \o Repeat("b", MaxLabelLength) \o <<".">>
         \o Repeat("c", MaxLabelLength) \o <<".">> \o Repeat("d", MaxDomainLength - 191) }
FormatStrings == ShortStrings \cup LongStrings

\* One call of the resolver's _is_valid_domain_format.
ResolverValidFormat(domain) ==
    /\ Returned("DomainResolverMiddleware._is_valid_domain_format", domain, << >>,
                _is_valid_domain_format(domain))
    /\ UNCHANGED <<now, http_vars, cache_vars, rl_vars, thread_vars>>

\* One call of the whitelist validator's _is_valid_domain_format.
WhitelistValidFormat(domain) ==
    /\ Returned("DomainWhitelistValidator._is_valid_domain_format", domain, << >>,
                whitelist_is_valid_domain_format(domain))
    /\ UNCHANGED <<now, http_vars, cache_vars, rl_vars, thread_vars>>

NextFormat ==
    \/ ret.seq < MaxOps /\ \E domain \in FormatStrings : ResolverValidFormat(domain)
    \/ ret.seq < MaxOps /\ \E domain \in FormatStrings : WhitelistValidFormat(domain)

SpecFormat == InitCache /\ [][NextFormat]_vars

(***************************************************************************)
(* The request gate.  A request goes through the WSGI wrapper of           *)
(* DomainResolverMiddleware (tenant resolution and configuration lookup),  *)
(* then through Flask's before_request handlers in registration order      *)
(* (handle_cors, generate_request_id, _inject_domain_context,              *)
(* validate_request_security), then to the view function of its route.     *)
(***************************************************************************)
MaxRequests == 2    \* requests received in one behaviour

MaxRequestSize == 1048576

\* The fields of a DomainConfig the gate reads, as DomainConfig.from_dict
\* builds them.
from_dict(domain, enabled) ==
    [domain |-> domain, enabled |-> enabled, cache_timeout |-> DefaultTimeout]

\* DomainConfigManager.get_config_by_domain(domain).
get_config_by_domain(domains, default_config, domain) ==
    IF domain \in DOMAIN domains /\ domains[domain].enabled
    THEN [value |-> Some(domains[domain]), raised |-> NoneVal]
    ELSE IF default_config # NoneVal
    THEN [value |-> default_config, raised |-> NoneVal]
    ELSE [value |-> NoneVal,
          raised |-> Some(ValueError("Domain not found and no default configuration available"))]

\* A response: its status code, the error it names ("" for none) and its text.
Response(status, error, message) ==
    [status |-> status, error |-> error, message |-> message]

\* A request arrives at the WSGI wrapper.
ReceiveRequest(r) ==
    /\ gate_pc \in {"idle", "done"}
    /\ request' = r
    /\ environ' = NoEnviron
    /\ g' = NoG
    /\ response' = NoneVal
    /\ handled' = FALSE
    /\ passed' = {}
    /\ served' = served + 1
    /\ gate_pc' = "wsgi"
    /\ UNCHANGED <<now, _domains, _default_config, whitelist, require_https, cache_vars,
                   rl_vars, thread_vars, ret>>

\* _wrap_wsgi_app.middleware: resolve the tenant and look its configuration
\* up; a ValueError of either is answered with status 404.
Middleware ==
    /\ gate_pc = "wsgi"
    /\ LET resolved == resolve_domain(request)
           looked_up == get_config_by_domain(_domains, _default_config, The(resolved.value))
       IN  IF resolved.raised # NoneVal
           THEN /\ response' = Some(Response(404, "Domain not configured", <<The(resolved.raised)[2]>>))
                /\ gate_pc' = "done"
                /\ UNCHANGED <<environ, passed>>
           ELSE IF looked_up.raised # NoneVal
           THEN /\ response' = Some(Response(404, "Domain not configured", <<The(looked_up.raised)[2]>>))
                /\ gate_pc' = "done"
                /\ UNCHANGED <<environ, passed>>
           ELSE /\ environ' = [DOMAIN_NAME |-> resolved.value,
                               DOMAIN_CONFIG |-> looked_up.value]
                /\ passed' = passed \cup {"resolve"}
                /\ gate_pc' = "before_request"
                /\ UNCHANGED response
    /\ UNCHANGED <<now, request, _domains, _default_config, whitelist, require_https, g,
                   handled, served, cache_vars, rl_vars, thread_vars, ret>>

\* _inject_domain_context: Flask's g after the handler.
_inject_domain_context(env) ==
    IF env.DOMAIN_NAME # NoneVal /\ The(env.DOMAIN_NAME) # << >> /\ env.DOMAIN_CONFIG # NoneVal
    THEN [domain |-> env.DOMAIN_NAME, domain_config |-> env.DOMAIN_CONFIG]
    ELSE NoG

\* validate_request with the rate limiter consulted before the whitelist.
validate_request_limiter_first(wl, bw, mw, hw, cfg, https, request_obj, domain, t) ==
    LET checked == validate_domain(wl, domain)
        limited == IF cfg.enabled THEN is_allowed(bw, mw, hw, cfg, domain, t)
                   ELSE [burst |-> bw, minute |-> mw, hourly |-> hw,
                         allowed |-> TRUE, reason |-> NoneVal]
        after(is_valid, error_msg, stages) ==
            [is_valid |-> is_valid, error_msg |-> error_msg, stages |-> stages,
             burst |-> limited.burst, minute |-> limited.minute, hourly |-> limited.hourly]
    IN  IF ~limited.allowed
        THEN after(FALSE, limited.reason, {})
        ELSE IF ~checked.is_valid
        THEN after(FALSE, checked.error_msg, {"rate_limit"})
        ELSE IF https /\ ~request_obj.is_secure
        THEN after(FALSE, Some(<<"HTTPS is required">>), {"whitelist", "rate_limit"})
        ELSE IF request_obj.content_length # NoneVal
                /\ The(request_obj.content_length) > MaxRequestSize
        THEN after(FALSE, Some(<<"Request size too large">>), {"whitelist", "rate_limit"})
        ELSE after(TRUE, NoneVal, {"whitelist", "rate_limit"})

\* DomainSecurityManager.validate_request(domain, client_ip): the tuple it
\* returns, the rate limiter's windows of the tenant afterwards, and the
\* stages that let the request through.
validate_request(wl, bw, mw, hw, cfg, https, request_obj, domain, t) ==
    LET checked == validate_domain(wl, domain)
        limited == IF cfg.enabled THEN is_allowed(bw, mw, hw, cfg, domain, t)
                   ELSE [burst |-> bw, minute |-> mw, hourly |-> hw,
                         allowed |-> TRUE, reason |-> NoneVal]
        after(is_valid, error_msg, stages) ==
            [is_valid |-> is_valid, error_msg |-> error_msg, stages |-> stages,
             burst |-> limited.burst, minute |-> limited.minute, hourly |-> limited.hourly]
    IN  IF ~checked.is_valid
        THEN [is_valid |-> FALSE, error_msg |-> checked.error_msg, stages |-> {},
              burst |-> bw, minute |-> mw, hourly |-> hw]
        ELSE IF ~limited.allowed
        THEN after(FALSE, limited.reason, {"whitelist"})
        ELSE IF https /\ ~request_obj.is_secure
        THEN after(FALSE, Some(<<"HTTPS is required">>), {"whitelist", "rate_limit"})
        ELSE IF request_obj.content_length # NoneVal
                /\ The(request_obj.content_length) > MaxRequestSize
        THEN after(FALSE, Some(<<"Request size too large">>), {"whitelist", "rate_limit"})
        ELSE after(TRUE, NoneVal, {"whitelist", "rate_limit"})

\* The paths validate_request_security lets through unchecked.
SkippedPaths == {"/health", "/ping"}

\* The tenant validate_request_security checks: g.domain, else the Host
\* header without its port, None when there is neither.
security_domain(flask_g, request_obj) ==
    IF flask_g.domain # NoneVal /\ The(flask_g.domain) # << >> THEN flask_g.domain
    ELSE IF Truthy(request_obj.host)
    THEN Some(strip(lower(split_first(The(request_obj.host), ":"))))
    ELSE NoneVal

\* The before_request handlers, up to the first that returns a response.
BeforeRequest ==
    /\ gate_pc = "before_request"
    /\ IF request.method = "OPTIONS"
       THEN \* handle_cors answers the preflight request
            /\ response' = Some(Response(200, "", <<"ok">>))
            /\ gate_pc' = "done"
            /\ UNCHANGED <<g, passed, rl_vars>>
       ELSE LET flask_g == _inject_domain_context(environ)
                domain == security_domain(flask_g, request)
            IN  /\ g' = flask_g
                /\ IF request.path \in SkippedPaths \/ domain = NoneVal \/ domain = Some(<< >>)
                   THEN /\ gate_pc' = "dispatch"
                        /\ UNCHANGED <<response, passed, rl_vars>>
                   ELSE LET d == The(domain)
                            v == validate_request(whitelist, BurstOf(d), MinuteOf(d),
                                                  HourlyOf(d), config, require_https,
                                                  request, d, now)
                        IN  /\ IF v.stages = {}
                               THEN UNCHANGED rl_vars
                               ELSE IF config.enabled
                               THEN StoreWindows(d, v) /\ UNCHANGED config
                               ELSE UNCHANGED rl_vars
                            /\ passed' = passed \cup v.stages
                            /\ IF v.is_valid
                               THEN gate_pc' = "dispatch" /\ UNCHANGED response
                               ELSE /\ response' = Some(Response(403, "Security validation failed",
                                                              The(v.error_msg)))
                                    /\ gate_pc' = "done"
    /\ UNCHANGED <<now, request, _domains, _default_config, whitelist, require_https,
                   environ, handled, served, cache_vars, thread_vars, ret>>

\* The paths that have a view function.
Routes == {"/api/data", "/api/health"}

\* Flask dispatches the request: the view function of its route runs, or the
\* request is answered 404 when no route matches.
Dispatch ==
    /\ gate_pc = "dispatch"
    /\ IF request.path \in Routes
       THEN handled' = TRUE /\ response' = Some(Response(200, "", <<"view">>))
       ELSE handled' = FALSE /\ response' = Some(Response(404, "Not Found", << >>))
    /\ gate_pc' = "done"
    /\ UNCHANGED <<now, request, _domains, _default_config, whitelist, require_https,
                   environ, g, served, passed, cache_vars, rl_vars, thread_vars, ret>>

\* Requests of the gate's behaviours: to a tenant with and without
\* configuration, with a malformed tenant id, with none; a preflight request;
\* a request to a path the security check skips; an oversized request.
GateRequest(host, path, method, content_length) ==
    [args_domain |-> NoneVal, x_domain |-> NoneVal, host |-> host, path |-> path,
     method |-> method, is_secure |-> FALSE, content_length |-> content_length]
GateRequests ==
    { GateRequest(Some(<<"a">>), "/api/data", "GET", NoneVal),
      GateRequest(Some(<<"b", ":", "8">>), "/api/data", "GET", NoneVal),
      GateRequest(Some(<<"-", "a">>), "/api/data", "GET", NoneVal),
      GateRequest(NoneVal, "/api/data", "GET", NoneVal),
      GateRequest(Some(<<"a">>), "/api/data", "OPTIONS", NoneVal),
      GateRequest(Some(<<"b">>), "/health", "GET", NoneVal),
      GateRequest(Some(<<"a">>), "/api/data", "GET", Some(MaxRequestSize + 1)) }

\* What domains.json may hold for tenant a, and its default_config section.
GateDomains ==
    { << >>,
      DictSet(<< >>, <<"a">>, from_dict(<<"a">>, TRUE)),
      DictSet(<< >>, <<"a">>, from_dict(<<"a">>, FALSE)) }
GateDefaults == {NoneVal, Some(from_dict(<<"default">>, TRUE))}
GateWhitelists == {{}, {<<"a">>}, {<<"a">>, <<"b">>}}

InitGate ==
    /\ now = 0
    /\ ret = NoCall
    /\ request = NoRequest
    /\ _domains \in GateDomains
    /\ _default_config \in GateDefaults
    /\ whitelist \in GateWhitelists
    /\ require_https \in BOOLEAN
    /\ IdleGate
    /\ InitCacheManager
    /\ \E enabled \in BOOLEAN : InitRateLimiter(RateLimitConfig(60, 1000, 1, enabled))

NextGate ==
    \/ served < MaxRequests /\ \E r \in GateRequests : ReceiveRequest(r)
    \/ Middleware
    \/ BeforeRequest
    \/ Dispatch
    \/ TickConc

SpecGate == InitGate /\ [][NextGate]_vars

(***************************************************************************)
(* Properties of the cache.                                                *)
(***************************************************************************)
\* The step completes a call (of the named operation).
Called == ret'.seq # ret.seq
CalledOp(op) == Called /\ ret'.op = op

\* The step is the sweep's visit of tenant d.
Swept(d) == d \in sweep_todo /\ d \notin sweep_todo'

\* What the reference map says get(d, k) returns at time t: the value of the
\* last set(d, k, .) not deleted or cleared since, unless its lifetime is over.
Expected(d, k, t) ==
    IF ref[d][k] # NoneVal /\ ~(t > The(ref[d][k]).at + The(ref[d][k]).ttl)
    THEN Some(The(ref[d][k]).value)
    ELSE NoneVal

\* No sweep cycle has started yet.
NeverSwept == sweep_pc = "sleep" /\ sweep_wake = 0

C1_IsolationStep ==
    /\ \A A \in Domains :
         (CacheOf(A)' # CacheOf(A) \/ StatsOf(A)' # StatsOf(A))
            => ((Called /\ ret'.domain = A) \/ Swept(A))
    /\ CalledOp("get") => ret'.value = Expected(ret'.domain, ret'.key, now)

\* C1: cache isolation.  Only a call on tenant A, or the sweep's visit of A,
\* changes A's entries or A's statistics; and get(A, k) returns the value of the
\* most recent set(A, k, .) that is unexpired and not deleted or cleared,
\* whatever was set, deleted or cleared under another tenant.
C1_Isolation == [][C1_IsolationStep]_vars

\* C1 witness: both tenants hold an entry under the same key string with
\* different values, and get(a, k) has just returned a's value.
C1_Witness ==
    /\ ret.op = "get" /\ ret.domain = <<"a">> /\ ret.key = <<"k">>
    /\ ret.value = Some(<<"x">>)
    /\ ref[<<"b">>][<<"k">>] # NoneVal
    /\ The(ref[<<"b">>][<<"k">>]).value = <<"y", "z">>
    /\ _get_cache_key(<<"b">>, <<"k">>) \in DOMAIN CacheOf(<<"b">>)

\* The step completes the call op(T, k).
CalledOn(op, T, k) == CalledOp(op) /\ ret'.domain = T /\ ret'.key = k

C2_ExpiryStep ==
    \A T \in Domains, k \in Keys :
        LET ck == _get_cache_key(T, k) IN
        (CalledOn("get", T, k) /\ ck \in DOMAIN CacheOf(T)
                               /\ now > CacheOf(T)[ck].expires_at) =>
              /\ ret'.value = NoneVal
              /\ StatsOf(T)'.total_misses = StatsOf(T).total_misses + 1
              /\ StatsOf(T)'.total_hits = StatsOf(T).total_hits
              /\ DOMAIN CacheOf(T)' = (DOMAIN CacheOf(T)) \ {ck}
              /\ get_cache_stats(CacheOf(T), StatsOf(T), T)'.value.total_entries
                   = Cardinality(DOMAIN CacheOf(T)) - 1

\* C2: expiry correctness.  A get of an entry whose expires_at has passed
\* returns None, adds exactly one to the tenant's misses and none to its hits,
\* and removes the entry, so that the following statistics show one entry
\* fewer; no sweep is needed for that.
C2_Expiry == [][C2_ExpiryStep]_vars

\* C2 witness: before any sweep cycle, a get has returned None for a key that
\* was set and neither deleted nor cleared, and the entry is gone.
C2_Witness ==
    /\ NeverSwept
    /\ ret.op = "get" /\ ret.value = NoneVal
    /\ ref[ret.domain][ret.key] # NoneVal
    /\ _get_cache_key(ret.domain, ret.key) \notin DOMAIN CacheOf(ret.domain)
    /\ StatsOf(ret.domain).total_misses = 1
    /\ StatsOf(ret.domain).total_entries = 0

C10_SetStep ==
    \A T \in Domains, k \in Keys :
        LET ck == _get_cache_key(T, k) IN
        CalledOn("set", T, k) =>
           /\ ck \in DOMAIN CacheOf(T)'
           /\ CacheOf(T)'[ck].value = The(ref[T][k])'.value
           /\ CacheOf(T)'[ck].created_at = now
           /\ CacheOf(T)'[ck].expires_at = now + The(ref[T][k])'.ttl
           /\ CacheOf(T)'[ck].access_count = 0
           /\ StatsOf(T)'.total_sets = StatsOf(T).total_sets + 1
           /\ Cardinality(DOMAIN CacheOf(T)') =
                Cardinality(DOMAIN CacheOf(T)) + (IF ck \in DOMAIN CacheOf(T) THEN 0 ELSE 1)
           /\ \A other \in (DOMAIN CacheOf(T)) \ {ck} :
                other \in DOMAIN CacheOf(T)' /\ CacheOf(T)'[other] = CacheOf(T)[other]

\* C10: set(T, k, v, ttl) replaces any entry of (T, k), expired or not: the
\* entry then holds v with created_at = now, expires_at = now + ttl and
\* access_count = 0, total_sets grows by exactly one, and the number of entries
\* grows by one only if (T, k) was absent.
C10_SetReplaces == [][C10_SetStep]_vars

\* C10 witness: a set has replaced an entry that had been read (no eviction
\* and no delete took place: two sets, one entry, one hit, no miss).
C10_Witness ==
    /\ NeverSwept
    /\ ret.op = "set"
    /\ StatsOf(ret.domain).total_sets = 2
    /\ StatsOf(ret.domain).total_hits = 1
    /\ StatsOf(ret.domain).total_misses = 0
    /\ StatsOf(ret.domain).total_deletes = 0
    /\ DOMAIN CacheOf(ret.domain) = {_get_cache_key(ret.domain, ret.key)}
    /\ now > 0

\* The historical counters of a tenant's statistics.
Counters(st) == <<st.total_hits, st.total_misses, st.total_sets, st.total_deletes>>

C11_DeleteStep ==
    \A T \in Domains, k \in Keys :
        LET ck == _get_cache_key(T, k) IN
        CalledOn("delete", T, k) =>
            IF ck \in DOMAIN CacheOf(T)
            THEN /\ ret'.value = TRUE
                 /\ DOMAIN CacheOf(T)' = (DOMAIN CacheOf(T)) \ {ck}
                 /\ \A other \in DOMAIN CacheOf(T)' : CacheOf(T)'[other] = CacheOf(T)[other]
                 /\ StatsOf(T)'.total_deletes = StatsOf(T).total_deletes + 1
                 /\ StatsOf(T)'.total_hits = StatsOf(T).total_hits
                 /\ StatsOf(T)'.total_misses = StatsOf(T).total_misses
                 /\ StatsOf(T)'.total_sets = StatsOf(T).total_sets
            ELSE /\ ret'.value = FALSE
                 /\ CacheOf(T)' = CacheOf(T)
                 /\ Counters(StatsOf(T)') = Counters(StatsOf(T))
                 /\ StatsOf(T)'.total_entries = StatsOf(T).total_entries

\* C11: delete(T, k) returns True and removes exactly the entry of (T, k) when
\* there is one, adding one to T's total_deletes; when there is none it returns
\* False and leaves T's entries and all of T's counters as they were.
C11_Delete == [][C11_DeleteStep]_vars

\* C11 witness: of two entries of tenant a, delete(a, k) has removed the one
\* of k and returned True; the entry of j is still there.
C11_Witness ==
    /\ ret.op = "delete" /\ ret.domain = <<"a">> /\ ret.key = <<"k">>
    /\ ret.value = TRUE
    /\ DOMAIN CacheOf(<<"a">>) = {_get_cache_key(<<"a">>, <<"j">>)}
    /\ StatsOf(<<"a">>).total_deletes = 1
    /\ StatsOf(<<"a">>).total_sets = 2

C12_ClearStep ==
    \A T \in Domains :
        (CalledOp("clear_domain_cache") /\ ret'.domain = T) =>
            LET n == Cardinality(DOMAIN CacheOf(T))
                again == clear_domain_cache(CacheOf(T), StatsOf(T), T)'
            IN /\ ret'.value = n
               /\ CacheOf(T)' = EmptyDict
               /\ StatsOf(T)'.total_deletes = StatsOf(T).total_deletes + n
               /\ StatsOf(T)'.total_hits = StatsOf(T).total_hits
               /\ StatsOf(T)'.total_misses = StatsOf(T).total_misses
               /\ StatsOf(T)'.total_sets = StatsOf(T).total_sets
               /\ \A B \in Domains \ {T} :
                    CacheOf(B)' = CacheOf(B) /\ StatsOf(B)' = StatsOf(B)
               /\ again.value = 0
               /\ again.cache = CacheOf(T)'
               /\ again.stats = StatsOf(T)'

\* C12: clear_domain_cache(T) removes every entry of T, returns the number n
\* of entries removed, adds exactly n to T's total_deletes, and leaves T's
\* hit, miss and set counters and every other tenant's entries as they were; a
\* second clear right after it returns 0 and changes nothing.
C12_Clear == [][C12_ClearStep]_vars

\* C12 witness: a clear has removed the two entries of tenant a and returned
\* 2; the two sets are still counted.
C12_Witness ==
    /\ ret.op = "clear_domain_cache" /\ ret.domain = <<"a">>
    /\ ret.value = 2
    /\ CacheOf(<<"a">>) = EmptyDict
    /\ StatsOf(<<"a">>).total_deletes = 2
    /\ StatsOf(<<"a">>).total_sets = 2
    /\ StatsOf(<<"a">>).total_entries = 0

C13_TTLStep ==
    \A T \in Domains, k \in Keys :
        LET ck == _get_cache_key(T, k) IN
        /\ (CalledOn("set", T, k) \/ CalledOn("set_with_domain_config", T, k)) =>
              /\ ck \in DOMAIN CacheOf(T)'
              /\ CacheOf(T)'[ck].created_at = now
              /\ CacheOf(T)'[ck].expires_at = now + The(ref[T][k])'.ttl
        /\ CalledOn("get", T, k) => ret'.value = Expected(T, k, now)

C14_ReadStep ==
    \A T \in Domains, k \in Keys :
        LET ck == _get_cache_key(T, k) IN
        /\ (CalledOn("get", T, k) /\ ret'.value # NoneVal) =>
              /\ ck \in DOMAIN CacheOf(T) /\ ck \in DOMAIN CacheOf(T)'
              /\ CacheOf(T)'[ck].value = CacheOf(T)[ck].value
              /\ CacheOf(T)'[ck].created_at = CacheOf(T)[ck].created_at
              /\ CacheOf(T)'[ck].expires_at = CacheOf(T)[ck].expires_at
              /\ CacheOf(T)'[ck].access_count = CacheOf(T)[ck].access_count + 1
              /\ CacheOf(T)'[ck].last_accessed = now
              /\ CacheOf(T)'[ck].expires_at = The(ref[T][k]).at + The(ref[T][k]).ttl
        /\ (CalledOn("get", T, k) /\ ref[T][k] # NoneVal
               /\ now > The(ref[T][k]).at + The(ref[T][k]).ttl) => ret'.value = NoneVal

\* C14: reads never extend an entry's lifetime.  A get that returns a value
\* adds one to the entry's access_count, sets its last_accessed, and leaves its
\* value, created_at and expires_at as the set stored them; so a get made after
\* the lifetime counted from the set returns None, however often the entry was
\* read in between.
C14_NoSlidingExpiry == [][C14_ReadStep]_vars

\* C14 witness: an entry stored at time 0 with the default lifetime was read
\* twice, the second time at time 5, and a get at time 305 has returned None
\* (no sweep cycle has run).
C14_Witness ==
    /\ NeverSwept
    /\ ret.op = "get" /\ ret.value = NoneVal
    /\ now = 305
    /\ ref[ret.domain][ret.key] = Some([value |-> <<"x">>, ttl |-> 300, at |-> 0])
    /\ obs[ret.domain] = [hits |-> 2, misses |-> 1]
    /\ StatsOf(ret.domain).total_sets = 1


C15_ZeroTTLStep ==
    \A T \in Domains, k \in Keys :
        (/\ CalledOn("get", T, k)
         /\ ret.op = "set" /\ ret.domain = T /\ ret.key = k
         /\ ref[T][k] # NoneVal /\ The(ref[T][k]).ttl = 0)
        => ret'.value = NoneVal

\* C15: zero TTL.  The get(T, k) that follows set(T, k, v, 0) with no call in
\* between returns None, whatever the clock reads at that get.
C15_ZeroTTL == [][C15_ZeroTTLStep]_vars

C16_NegativeTTLStep ==
    \A T \in Domains, k \in Keys :
        (CalledOn("set", T, k) /\ The(ref[T][k])'.ttl < 0) =>
            /\ ret'.raised # NoneVal
            /\ CacheOf(T)' = CacheOf(T)
            /\ StatsOf(T)' = StatsOf(T)

\* C16: a set with a negative timeout is rejected.  It signals an error (it
\* raises instead of returning), stores no entry,
\* and leaves the tenant's entries and counters, total_sets included, as they
\* were.
C16_NegativeTTLRejected == [][C16_NegativeTTLStep]_vars

\* The operations that take a tenant id as their first argument.
TenantOps == {"get", "set", "delete", "clear_domain_cache", "get_cache_stats", "is_allowed"}

C17_InvalidTenantStep ==
    (Called /\ ret'.op \in TenantOps /\ ret'.domain = << >>) =>
        /\ ret'.raised # NoneVal
        /\ caches' = caches /\ stats' = stats
        /\ UnchangedWindows
        /\ << >> \notin DOMAIN caches' /\ << >> \notin DOMAIN stats'
        /\ << >> \notin DOMAIN domain_requests'
        /\ << >> \notin DOMAIN domain_hourly_requests'
        /\ << >> \notin DOMAIN domain_burst_requests'

\* C17: an empty tenant id passed to get, set, delete, clear_domain_cache,
\* get_cache_stats or is_allowed is rejected: the call raises, and no entry map,
\* statistics or rate window is created or modified, for the empty tenant or
\* for any other.
C17_InvalidTenant == [][C17_InvalidTenantStep]_vars

\* The tenant has entries, or a hit, miss, set or delete was recorded for it.
HasEntriesOrHistory(d) ==
    \/ DOMAIN CacheOf(d) # {}
    \/ StatsOf(d).total_hits + StatsOf(d).total_misses
         + StatsOf(d).total_sets + StatsOf(d).total_deletes > 0

C18_AllStatsStep ==
    CalledOp("get_all_cache_stats") =>
        /\ DOMAIN ret'.value = {d \in Tenants : HasEntriesOrHistory(d)}
        /\ \A d \in DOMAIN ret'.value :
              /\ ret'.value[d].total_entries = Cardinality(DOMAIN CacheOf(d))
              /\ ret'.value[d].total_hits = StatsOf(d).total_hits
              /\ ret'.value[d].total_misses = StatsOf(d).total_misses
              /\ ret'.value[d].total_sets = StatsOf(d).total_sets
              /\ ret'.value[d].total_deletes = StatsOf(d).total_deletes

\* C18: get_all_cache_stats returns an entry for exactly the tenants that have
\* entries or for which a hit, miss, set or delete was ever recorded, each with
\* its current number of entries and its historical counters; a tenant that
\* was only queried (statistics, size, key listing) is not among them.
\* A step that completes a call changes ret.seq.
C18_AllStats == [][C18_AllStatsStep]_<<ret.seq>>

C19_ShutdownStep ==
    /\ (shutdown_pc = "idle" /\ shutdown_pc' = "join") => join_deadline' = now + 5
    /\ (shutdown_pc = "join" /\ shutdown_pc' # "join") => now' <= join_deadline
    /\ shutdown_pc # "idle" =>
          \A d \in Tenants :
              /\ StatsOf(d)'.total_hits = StatsOf(d).total_hits
              /\ StatsOf(d)'.total_misses = StatsOf(d).total_misses
              /\ StatsOf(d)'.total_sets = StatsOf(d).total_sets

C19_Cleared ==
    shutdown_pc = "done" =>
        \A d \in Tenants :
            /\ DOMAIN CacheOf(d) = {}
            /\ StatsOf(d).total_entries = 0
            /\ StatsOf(d).total_hits = obs[d].hits
            /\ StatsOf(d).total_misses = obs[d].misses

\* C19: shutdown always returns.  It waits for the sweep thread no longer than
\* 5 seconds from its start and goes on whether or not the thread has ended;
\* once it has begun it returns; and when it has returned, no call having been
\* made meanwhile, every tenant has no entry while its hit, miss and set
\* counters are what they were.
C19_Shutdown ==
    /\ [][C19_ShutdownStep]_vars
    /\ [](C19_Cleared)
    /\ (shutdown_pc \in {"join", "clear"} ~> shutdown_pc = "done")

\* C19 witness: shutdown has returned 5 seconds after it began while the sweep
\* thread is still asleep until time 300; the entries of both tenants are gone
\* and their sets are still counted.
C19_Witness ==
    /\ shutdown_pc = "done"
    /\ sweep_pc = "sleep" /\ sweep_wake = 300
    /\ now = 5 /\ join_deadline = 5
    /\ \A d \in Domains :
          /\ CacheOf(d) = EmptyDict
          /\ StatsOf(d).total_sets = 1
          /\ StatsOf(d).total_deletes = 1

\* The entry of (d, k) is in d's map and its expires_at has passed.
ExpiredEntry(d, k) ==
    LET ck == _get_cache_key(d, k) IN
    ck \in DOMAIN CacheOf(d) /\ now > CacheOf(d)[ck].expires_at

\* The cleanup thread sleeps until after the last clock reading of the model.
SweepBeyondClock == sweep_pc = "sleep" /\ sweep_wake > SetMax(CacheTimePoints)

\* C36: every entry stored in any tenant's cache has expires_at >= created_at,
\* in every reachable state and for every timeout a caller can pass to set or
\* set_with_domain_config.
C36_ExpiryNotBeforeCreation ==
    \A d \in DOMAIN caches : \A ck \in DOMAIN caches[d] :
        caches[d][ck].expires_at >= caches[d][ck].created_at

C37_KeyDerivationStep ==
    (CalledOp("_get_cache_key") /\ ret.op = "_get_cache_key") =>
        /\ (ret'.domain = ret.domain /\ ret'.key = ret.key) => ret'.value = ret.value
        /\ (ret'.domain # ret.domain \/ ret'.key # ret.key) =>
              ret'.value.hexdigest_of # ret.value.hexdigest_of

\* C37: the key material built from (tenant, key) before hashing is the same
\* on every call for one pair and differs for any two distinct pairs: two
\* pairs of different tenants never give the same material, whatever their
\* keys, and two distinct keys of one tenant never share a slot.
C37_KeyDerivation == [][C37_KeyDerivationStep]_<<ret.seq>>

\* The steps that remove entries on behalf of a caller: delete,
\* clear_domain_cache, and the clearing of a tenant by shutdown.
RemovalByCaller ==
    \/ CalledOp("delete")
    \/ CalledOp("clear_domain_cache")
    \/ shutdown_todo' # shutdown_todo /\ shutdown_pc = "clear"

C38_CounterStep ==
    \A T \in Tenants :
        /\ StatsOf(T)'.total_hits >= StatsOf(T).total_hits
        /\ StatsOf(T)'.total_misses >= StatsOf(T).total_misses
        /\ StatsOf(T)'.total_sets >= StatsOf(T).total_sets
        /\ StatsOf(T)'.total_deletes >= StatsOf(T).total_deletes
        /\ StatsOf(T)'.total_deletes - StatsOf(T).total_deletes =
              IF RemovalByCaller
              THEN Cardinality(DOMAIN CacheOf(T) \ DOMAIN CacheOf(T)')
              ELSE 0

C38_Balance ==
    \A T \in Tenants :
        StatsOf(T).total_deletes + Cardinality(DOMAIN CacheOf(T)) <= StatsOf(T).total_sets

C31_SweepStep ==
    /\ (sweep_pc = "sleep" /\ sweep_pc' = "run") => sweep_todo' = DOMAIN caches
    /\ (sweep_pc = "run" /\ sweep_pc' = "sleep") => sweep_todo = {}
    /\ \A d \in Domains :
          Swept(d) =>
            /\ DOMAIN CacheOf(d)' =
                  {ck \in DOMAIN CacheOf(d) : ~(now > CacheOf(d)[ck].expires_at)}
            /\ \A ck \in DOMAIN CacheOf(d)' : CacheOf(d)'[ck] = CacheOf(d)[ck]
            /\ Counters(StatsOf(d))' = Counters(StatsOf(d))

\* C31: background sweep.  A sweep cycle visits every tenant's entry map; a
\* visit removes exactly the entries whose expires_at has passed, leaves the
\* others as they are and changes no hit, miss, set or delete counter; and
\* while the manager is running, an expired entry is eventually no longer in
\* its tenant's map, whether or not it is read again (unless the cleanup
\* thread's next cycle lies after the last clock reading).
C31_Sweep ==
    /\ [][C31_SweepStep]_vars
    /\ \A d \in Domains, k \in Keys :
          ExpiredEntry(d, k) ~> (~ExpiredEntry(d, k) \/ SweepBeyondClock)

\* C31 witness: an entry that was set and never read, deleted or cleared has
\* been removed by the sweep after its lifetime, while another tenant's
\* unexpired entry is still there.
C31_Witness ==
    \E d \in Domains, e \in Domains, k \in Keys :
        /\ ref[d][k] # NoneVal
        /\ now > The(ref[d][k]).at + The(ref[d][k]).ttl
        /\ _get_cache_key(d, k) \notin DOMAIN CacheOf(d)
        /\ obs[d].hits = 0 /\ obs[d].misses = 0
        /\ e # d /\ ref[e][k] # NoneVal
        /\ _get_cache_key(e, k) \in DOMAIN CacheOf(e)
        /\ sweep_pc = "sleep" /\ sweep_wake > 0

C32_ContainmentStep ==
    /\ sweep_pc' = "exited" => ~_running
    /\ (sweep_pc = "run" /\ sweep_pc' # "run") => Cardinality(sweep_todo) <= 1

\* C32: sweep error containment.  The cleanup thread ends only when the
\* manager is no longer running, and an exception raised during the visit of
\* one tenant does not end the cycle: a cycle ends with no tenant of its list
\* left unvisited other than the one whose visit failed.
C32_Containment == [][C32_ContainmentStep]_<<sweep_pc, sweep_todo>>

(***************************************************************************)
(* Properties of tenant resolution.                                        *)
(***************************************************************************)
NoUpperCase(s) == \A i \in 1..Len(s) : s[i] \notin UpperChars
Trimmed(s) == s = << >> \/ (s[1] \notin Whitespace /\ s[Len(s)] \notin Whitespace)
Blank(s) == \A i \in 1..Len(s) : s[i] \in Whitespace

\* r and m are the same string up to the case of the letters.
SameIgnoringCase(r, m) ==
    /\ Len(r) = Len(m)
    /\ \A i \in 1..Len(r) :
         \/ r[i] = m[i]
         \/ \E n \in 1..Len(UpperLetters) :
               {r[i], m[i]} = {UpperLetters[n], LowerLetters[n]}

\* r is raw without its surrounding whitespace, in lower case.
TrimmedLowerOf(r, raw) ==
    /\ NoUpperCase(r)
    /\ Trimmed(r)
    /\ \E i \in 0..Len(raw), j \in 0..Len(raw) :
         /\ i <= j
         /\ \A n \in 1..i : raw[n] \in Whitespace
         /\ \A n \in (j + 1)..Len(raw) : raw[n] \in Whitespace
         /\ SameIgnoringCase(r, SubSeq(raw, i + 1, j))

\* p is host without its port suffix: what precedes the first colon.
WithoutPort(p, host) ==
    /\ \A i \in 1..Len(p) : p[i] # ":"
    /\ \/ p = host
       \/ /\ Len(host) > Len(p)
          /\ SubSeq(host, 1, Len(p)) = p
          /\ host[Len(p) + 1] = ":"

\* The outcome of resolve_domain agrees with the order query parameter,
\* X-Domain, Host, where Given(v) says that source v counts as present.
ResolvedInOrder(Given(_)) ==
    LET q == request.args_domain
        x == request.x_domain
        h == request.host
    IN  IF ~Given(q) /\ ~Given(x) /\ ~Given(h)
        THEN ret.value = NoneVal /\ ret.raised # NoneVal
        ELSE /\ (ret.value = NoneVal) # (ret.raised = NoneVal)
             /\ ret.value # NoneVal =>
                  LET r == The(ret.value)
                  IN  /\ r # << >>
                      /\ IF Given(q) THEN TrimmedLowerOf(r, The(q))
                         ELSE IF Given(x) THEN TrimmedLowerOf(r, The(x))
                         ELSE \E p \in {SubSeq(The(h), 1, n) : n \in 0..Len(The(h))} :
                                 WithoutPort(p, The(h)) /\ TrimmedLowerOf(r, p)
             /\ LET first == IF Given(q) THEN The(q) ELSE IF Given(x) THEN The(x)
                             ELSE The(h)
                IN  Blank(first) => ret.raised # NoneVal

SourceSent(v) == v # NoneVal
SourceNonEmpty(v) == v # NoneVal /\ The(v) # << >>

\* C20 as stated: the tenant id comes from the first source the request
\* carries, in the order query parameter domain, X-Domain header, Host header
\* without its port; a later source is never consulted once an earlier one is
\* carried, even if its value is empty after trimming or malformed (the call
\* then fails); a returned id is in lower case and trimmed.
C20_FirstSourceSent ==
    ret.op = "resolve_domain" => ResolvedInOrder(SourceSent)

\* C20, amended: the same, where a source counts as present only when its raw
\* value is not the empty string: a source sent with an empty value is passed
\* over like a missing one, while a value of whitespace only, or a malformed
\* one, makes the call fail without consulting a later source.
C20_ResolutionOrder ==
    ret.op = "resolve_domain" => ResolvedInOrder(SourceNonEmpty)

\* The padded upper-case query parameter wins over both headers.
C20_Witness ==
    /\ ret.op = "resolve_domain"
    /\ request.args_domain = Some(<<" ", "B", "\n">>)
    /\ request.x_domain = Some(<<"a">>)
    /\ request.host = Some(<<"B", ".", "a", ":", "8">>)
    /\ ret.value = Some(<<"b">>)

(***************************************************************************)
(* Properties of the domain-format validation.                             *)
(***************************************************************************)
\* The format the validators are to accept: not empty, at most 253
\* characters, only letters, digits, dots and hyphens, no dot or hyphen at
\* either end, no two dots and no two hyphens in a row, and no run of more
\* than 63 characters without a dot.
WellFormedDomain(s) ==
    /\ s # << >>
    /\ Len(s) <= 253
    /\ \A i \in 1..Len(s) : s[i] \in UpperChars \cup LowerChars \cup DigitChars \cup {".", "-"}
    /\ s[1] \notin {".", "-"}
    /\ s[Len(s)] \notin {".", "-"}
    /\ \A i \in 1..(Len(s) - 1) : ~(s[i] = s[i + 1] /\ s[i] \in {".", "-"})
    /\ \A i \in 1..(Len(s) - 63) : \E j \in i..(i + 63) : s[j] = "."

FormatOps ==
    {"DomainResolverMiddleware._is_valid_domain_format",
     "DomainWhitelistValidator._is_valid_domain_format"}

\* C24: each of the two validators accepts a string exactly when it is well
\* formed (so "a..b", "-a.com", "a.com-" and a 300-character string are
\* rejected and "valid-domain.example.com" is accepted), and the resolver's
\* and the whitelist validator's answers agree on every string.
C24_FormatValidation ==
    ret.op \in FormatOps =>
        /\ ret.value = WellFormedDomain(ret.domain)
        /\ _is_valid_domain_format(ret.domain) = whitelist_is_valid_domain_format(ret.domain)

(***************************************************************************)
(* Properties of the whitelist.                                            *)
(***************************************************************************)
\* d, in lower case and trimmed, is matched by the wildcard entry e = *.p.
WildcardMatches(e, d) ==
    LET entry == strip(lower(e))
        name == strip(lower(d))
    IN  /\ Len(entry) >= 2 /\ entry[1] = "*" /\ entry[2] = "."
        /\ LET p == SubSeq(entry, 3, Len(entry))
           IN  \/ name = p
               \/ /\ Len(name) > Len(p)
                  /\ SubSeq(name, Len(name) - Len(p), Len(name)) = <<".">> \o p

\* d is not empty and, up to case and padding, equals an entry of wl or is
\* matched by a wildcard entry of wl.
Whitelisted(wl, d) ==
    /\ d # << >>
    /\ \/ \E e \in wl : strip(lower(e)) = strip(lower(d))
       \/ \E e \in wl : WildcardMatches(e, d)

C25_WhitelistStep ==
    /\ CalledOp("is_domain_allowed") => ret'.value = Whitelisted(whitelist, ret'.domain)
    /\ (CalledOp("add_domain") /\ ret'.domain # << >>) =>
          is_domain_allowed(whitelist', ret'.domain)
    /\ CalledOp("remove_domain") =>
          (is_domain_allowed(whitelist', ret'.domain)
              => \E e \in whitelist' : WildcardMatches(e, ret'.domain))

\* C25: is_domain_allowed(d) holds exactly when d is not empty and, after
\* lower-casing and trimming d and the entries, d equals an entry or is matched
\* by a wildcard entry *.p (d ends in .p or equals p); after add_domain(d) the
\* tenant d is allowed; after remove_domain(d) it is allowed only if a wildcard
\* entry matches it.  A step that completes a call changes ret.seq.
C25_Whitelist == [][C25_WhitelistStep]_<<ret.seq>>

(***************************************************************************)
(* Properties of the request gate.                                         *)
(***************************************************************************)
\* The request was answered by the WSGI wrapper because resolution failed
\* with the ValueError of text msg.
ResolutionFailed(msg) ==
    /\ gate_pc = "done"
    /\ response # NoneVal
    /\ The(response).error = "Domain not configured"
    /\ The(response).message = <<msg>>

NoTenantSpecified == ResolutionFailed("No domain specified")
InvalidTenantFormat == ResolutionFailed("Invalid domain format")
UnknownTenant == ResolutionFailed("Domain not found and no default configuration available")

\* C21: a resolution failure is answered before any view function runs, with
\* status 400 when the tenant id is malformed and 404 when the tenant is
\* unknown, and no tenant specified is answered with neither of the two.
C21_ResolutionErrors ==
    /\ (NoTenantSpecified \/ InvalidTenantFormat \/ UnknownTenant) => ~handled
    /\ InvalidTenantFormat => The(response).status = 400
    /\ UnknownTenant => The(response).status = 404
    /\ NoTenantSpecified => The(response).status \notin {400, 404}

\* C22: after the configuration lookup for a well-formed tenant id d, the
\* request carries d's own configuration whenever domains.json has one for d,
\* the default configuration when it has none for d and a default exists, and
\* the lookup fails (unknown tenant) only when there is neither.
C22_DefaultFallback ==
    /\ gate_pc = "before_request" =>
         LET d == The(environ.DOMAIN_NAME)
         IN  IF d \in DOMAIN _domains
             THEN environ.DOMAIN_CONFIG = Some(_domains[d])
             ELSE _default_config # NoneVal /\ environ.DOMAIN_CONFIG = _default_config
    /\ UnknownTenant =>
         /\ resolve_domain(request).value # NoneVal
         /\ The(resolve_domain(request).value) \notin DOMAIN _domains
         /\ _default_config = NoneVal

\* The rate limiter's answer for tenant d in the current state.
LimiterAnswer(d) ==
    IF config.enabled
    THEN is_allowed(BurstOf(d), MinuteOf(d), HourlyOf(d), config, d, now)
    ELSE [allowed |-> TRUE, reason |-> NoneVal]

GateStages == {"resolve", "whitelist", "rate_limit"}

C23_GateStep ==
    \* the stages are passed in the order resolve, whitelist, rate limiter
    /\ "whitelist" \in passed' => "resolve" \in passed'
    /\ "rate_limit" \in passed' => "whitelist" \in passed'
    /\ (gate_pc' = "before_request" /\ gate_pc # "before_request") =>
          (gate_pc = "wsgi" /\ "resolve" \in passed')
    \* the security check of a request that is neither a preflight request nor
    \* to a skipped path
    /\ (gate_pc = "before_request" /\ gate_pc' # "before_request"
           /\ request.method # "OPTIONS" /\ request.path \notin SkippedPaths) =>
          LET d == The(environ.DOMAIN_NAME)
              listed == validate_domain(whitelist, d)
              limited == LimiterAnswer(d)
          IN  /\ ~listed.is_valid =>
                    /\ gate_pc' = "done"
                    /\ The(response').status = 403
                    /\ The(response').message = The(listed.error_msg)
                    /\ rl_vars' = rl_vars
              /\ (listed.is_valid /\ ~limited.allowed) =>
                    /\ gate_pc' = "done"
                    /\ The(response').status = 403
                    /\ The(response').message = The(limited.reason)
              /\ gate_pc' = "dispatch" => (listed.is_valid /\ limited.allowed)
    \* a view function runs only after all three stages
    /\ (handled' /\ ~handled) => (gate_pc = "dispatch" /\ passed = GateStages)

InCriticalSection(t, d) ==
    /\ cpc[t] \in {"inside", "release"}
    /\ ccall[t].domain = d

\* C26: at any time at most one thread, request thread or cleanup thread, is
\* inside the critical section of a given tenant, also when the tenant's lock
\* is created by several threads that access the tenant for the first time
\* concurrently.
C26_MutualExclusion ==
    \A d \in Domains :
        Cardinality({t \in CacheThreads : InCriticalSection(t, d)}) <= 1

\* C27: a thread that holds a tenant's cache lock, the cleanup thread
\* included, never keeps an operation on another tenant from proceeding: a
\* thread that has to wait for its lock waits for a thread working on the
\* same tenant.
C27_NoCrossTenantContention ==
    \A t \in CacheThreads :
        (cpc[t] = "acquire" /\ ccall[t].lock \in DOMAIN lock_holder)
            => ccall[lock_holder[ccall[t].lock]].domain = ccall[t].domain

\* The cleanup thread is sweeping one tenant, holding its lock, while a
\* request thread is inside an operation on another tenant.
C27_Witness ==
    \E t \in Threads :
        /\ cpc[CleanupThread] = "inside"
        /\ cpc[t] = "inside"
        /\ ccall[t].domain # ccall[CleanupThread].domain

\* C33: last writer wins.  When two or more threads have called set(T, k, .)
\* concurrently and all have returned, T's total_sets has grown by the number
\* of the calls, T's map holds one entry for (T, k), and that entry is, with
\* its value, created_at and expires_at, the one written by the call that
\* acquired T's lock last.
C33_LastWriterWins ==
    \A T \in Domains :
        LET S == {t \in Threads : cpc[t] # "idle" /\ ccall[t].domain = T}
            last == CHOOSE t \in S : \A u \in S : ccall[u].order <= ccall[t].order
            ck == _get_cache_key(T, ConcKey)
        IN (Cardinality(S) >= 2 /\ \A t \in S : cpc[t] = "done") =>
              /\ StatsOf(T).total_sets = Cardinality(S)
              /\ DOMAIN CacheOf(T) = {ck}
              /\ CacheOf(T)[ck].value = ccall[last].value
              /\ CacheOf(T)[ck].created_at = The(ccall[last].current_time)
              /\ CacheOf(T)[ck].expires_at = The(ccall[last].current_time)

\* C29: every call of get_cache_manager() returns the same manager, also
\* when the first calls are made concurrently, so at most one manager, and
\* with it one cleanup thread, is ever created through it.
C29_Singleton ==
    /\ managers_created <= 1
    /\ \A t \in Threads, u \in Threads :
          (cresult[t] # NoneVal /\ cresult[u] # NoneVal) => cresult[t] = cresult[u]

\* C30: get_all_cache_stats() and get_total_cache_size(), run while another
\* thread's get or set introduces a tenant not seen before, always complete
\* normally, and the statistics report every tenant that existed when the
\* call began.
C30_IterationSafe ==
    (iter.pc = "idle" /\ ret.op \in IterOps) =>
        /\ ret.raised = NoneVal
        /\ ret.op = "get_all_cache_stats" => iter.began \subseteq DOMAIN ret.value

(***************************************************************************)
(* Properties of the rate limiter's locking.                               *)
(***************************************************************************)
\* C28: the rate limiter's lock is scoped to the tenant: a thread that waits
\* to enter is_allowed for tenant B is never kept waiting by a thread that is
\* inside is_allowed for another tenant A; only calls for the same tenant
\* exclude each other.
C28_PerTenantLock ==
    \A t \in Threads, u \in Threads :
        (pc[t] = "wait" /\ lock = {u}) => call[u].domain = call[t].domain

\* What get_cache_stats(d) would report in the current state.
Report(d) == get_cache_stats(CacheOf(d), StatsOf(d), d).value

Abs(x) == IF x < 0 THEN -x ELSE x

\* C9 (as amended): after H gets that returned a value and M gets that returned
\* None on a tenant, its statistics report total_hits = H and total_misses = M,
\* the hit_rate property is exactly H/(H+M)*100 (0 when H+M = 0), and the
\* reported hit_rate_percent is that number rounded to two decimals.
C9_HitMiss ==
    \A d \in Domains :
        LET H == obs[d].hits
            M == obs[d].misses
            q == hit_rate(StatsOf(d))
        IN /\ Report(d).total_hits = H
           /\ Report(d).total_misses = M
           /\ q.den > 0
           /\ IF H + M = 0 THEN q.num = 0 ELSE q.num * (H + M) = H * 100 * q.den
           /\ IF H + M = 0 THEN Report(d).hit_rate_percent = 0
              ELSE 2 * Abs(Report(d).hit_rate_percent * (H + M) - H * 10000) <= H + M

\* C9 witness: statistics have just been reported after one hit and two misses.
C9_Witness ==
    /\ ret.op = "get_cache_stats"
    /\ obs[ret.domain] = [hits |-> 1, misses |-> 2]
    /\ ret.value.total_hits = 1 /\ ret.value.total_misses = 2
    /\ ret.value.hit_rate_percent = 3333

\* C9 as stated: the reported hit rate equals H/(H+M)*100 (here in hundredths
\* of a percent).
C9_ReportedRateExact ==
    \A d \in Domains :
        LET H == obs[d].hits
            M == obs[d].misses
        IN H + M > 0 => Report(d).hit_rate_percent * (H + M) = H * 10000


(***************************************************************************)
(* Properties of the rate limiter.                                         *)
(***************************************************************************)
BurstReason(d) == Some(<<"Burst limit exceeded for domain ">> \o d)
MinuteReason(d) == Some(<<"Per-minute rate limit exceeded for domain ">> \o d)
HourReason(d) == Some(<<"Per-hour rate limit exceeded for domain ">> \o d)

\* The timestamps of w younger than the horizon h at time t, oldest first.
Within(w, h, t) == LET young(x) == x > t - h IN SelectSeq(w, young)

\* The step completes is_allowed(T) with rate limiting enabled.
Checked(T) == CalledOp("is_allowed") /\ ret'.domain = T /\ config.enabled

\* C3: no over-admission under concurrency.  When more threads than
\* burst_limit have called is_allowed for a tenant, all of them have returned,
\* the clock readings of the calls lie within one burst window and the minute
\* and hour limits are no lower than the burst limit, exactly burst_limit of
\* the calls were allowed.
C3_NoOverAdmission ==
    \A d \in Domains :
        LET S == {t \in Threads : pc[t] # "idle" /\ call[t].domain = d}
            times == {call[t].current_time : t \in S}
        IN (/\ config.enabled
            /\ \A t \in S : pc[t] = "done"
            /\ Cardinality(S) > config.burst_limit
            /\ \A x \in times, y \in times : x - y < 10
            /\ config.requests_per_minute >= config.burst_limit
            /\ config.requests_per_hour >= config.burst_limit)
           => Cardinality({t \in S : result[t].allowed}) = config.burst_limit

\* C3 witness: both threads have called is_allowed for tenant a at two
\* different clock readings of one burst window, with burst_limit = 1; one was
\* allowed and the other was denied on the burst limit.
C3_Witness ==
    /\ config.enabled /\ config.burst_limit = 1
    /\ config.requests_per_minute = 2 /\ config.requests_per_hour = 2
    /\ \A t \in Threads : pc[t] = "done" /\ call[t].domain = <<"a">>
    /\ {call[t].current_time : t \in Threads} = {0, 5}
    /\ Cardinality({t \in Threads : result[t].allowed}) = 1
    /\ \E t \in Threads : result[t] = [allowed |-> FALSE, reason |-> BurstReason(<<"a">>)]

C4_OrderStep ==
    \A T \in Domains :
        LET nb == Len(Within(BurstOf(T), 10, now))
            nm == Len(Within(MinuteOf(T), 60, now))
            nh == Len(Within(HourlyOf(T), 3600, now))
        IN Checked(T) =>
             ret'.value =
                IF nb >= config.burst_limit
                THEN [allowed |-> FALSE, reason |-> BurstReason(T)]
                ELSE IF nm >= config.requests_per_minute
                THEN [allowed |-> FALSE, reason |-> MinuteReason(T)]
                ELSE IF nh >= config.requests_per_hour
                THEN [allowed |-> FALSE, reason |-> HourReason(T)]
                ELSE Allowed

\* C4: check order.  is_allowed reports the burst limit when it is reached,
\* whatever the other two windows hold; else the per-minute limit when that is
\* reached; else the per-hour limit; and allows the request when none is.
C4_CheckOrder == [][C4_OrderStep]_vars

\* C4 witness: a request was denied for the burst limit while the per-minute
\* and the per-hour limit were reached as well.
C4_Witness ==
    /\ ret.op = "is_allowed" /\ config.enabled
    /\ ret.value = [allowed |-> FALSE, reason |-> BurstReason(ret.domain)]
    /\ config.burst_limit > 0
    /\ Len(BurstOf(ret.domain)) >= config.burst_limit
    /\ Len(MinuteOf(ret.domain)) >= config.requests_per_minute
    /\ Len(HourlyOf(ret.domain)) >= config.requests_per_hour

\* The requests of T admitted during the last 10 seconds, counted on the hour
\* window (which keeps every admitted request of the last hour).
AdmittedInBurstWindow(T) == Len(Within(HourlyOf(T), 10, now))

C5_BurstStep ==
    \A T \in Domains :
        (/\ Checked(T)
         /\ Len(Within(MinuteOf(T), 60, now)) < config.requests_per_minute
         /\ Len(Within(HourlyOf(T), 3600, now)) < config.requests_per_hour)
        => IF AdmittedInBurstWindow(T) < config.burst_limit
           THEN ret'.value = Allowed
           ELSE ret'.value = [allowed |-> FALSE, reason |-> BurstReason(T)]

\* C5: burst boundary and recovery.  While the minute and hour limits are not
\* reached, is_allowed(T) is allowed as long as fewer than burst_limit requests
\* of T were admitted in the last 10 seconds, and denied with the burst reason
\* otherwise; so the first burst_limit calls of a window pass, the next one is
\* denied, and a call made once the 10 seconds are over passes again.
C5_BurstBoundary == [][C5_BurstStep]_vars

\* C5 witness: with burst_limit = 1 and the other limits at 2, tenant a was
\* admitted at time 0, no other tenant was called, and the third call, made 10
\* seconds later, has just been admitted.
C5_Witness ==
    /\ ret.op = "is_allowed" /\ config.enabled /\ ret.value = Allowed
    /\ config.burst_limit = 1
    /\ config.requests_per_minute = 2 /\ config.requests_per_hour = 2
    /\ ret.domain = <<"a">>
    /\ HourlyOf(<<"a">>) = <<0, 10>>
    /\ BurstOf(<<"a">>) = <<10>>
    /\ now = 10
    /\ ret.seq = 3
    /\ DOMAIN domain_requests = {<<"a">>}

C6_RecordStep ==
    \A T \in Domains :
        Checked(T) =>
            LET b == Within(BurstOf(T), 10, now)
                m == Within(MinuteOf(T), 60, now)
                h == Within(HourlyOf(T), 3600, now)
            IN IF ret'.value.allowed
               THEN /\ BurstOf(T)' = Append(b, now)
                    /\ MinuteOf(T)' = Append(m, now)
                    /\ HourlyOf(T)' = Append(h, now)
               ELSE /\ BurstOf(T)' = b
                    /\ MinuteOf(T)' = m
                    /\ HourlyOf(T)' = h

\* C6: a timestamp is recorded if and only if the request is admitted.  An
\* allowed is_allowed(T) appends the clock reading to T's three windows; a
\* denied one appends nothing and changes the windows only by pruning.
C6_RecordedIffAdmitted == [][C6_RecordStep]_vars

\* C6 witness: a request has just been denied and the tenant's windows hold
\* exactly the one request admitted before it.
C6_Witness ==
    /\ ret.op = "is_allowed" /\ config.enabled
    /\ ~ret.value.allowed
    /\ config.burst_limit = 1
    /\ BurstOf(ret.domain) = <<0>>
    /\ MinuteOf(ret.domain) = <<0>>
    /\ HourlyOf(ret.domain) = <<0>>
    /\ now = TickStep

C7_DisabledStep ==
    (CalledOp("is_allowed") /\ ~config.enabled) =>
        /\ ret'.value = Allowed
        /\ UnchangedWindows

\* C7: with rate limiting disabled, is_allowed returns (True, None) for every
\* tenant and records nothing in any window.
C7_Disabled == [][C7_DisabledStep]_vars

\* C7 witness: with rate limiting disabled and every limit 0, a second call
\* has been allowed and no window exists.
C7_Witness ==
    /\ ~config.enabled
    /\ config.burst_limit = 0 /\ config.requests_per_minute = 0
    /\ config.requests_per_hour = 0
    /\ ret.op = "is_allowed" /\ ret.seq = 2 /\ ret.value = Allowed
    /\ DOMAIN domain_burst_requests = {}
    /\ DOMAIN domain_requests = {}
    /\ DOMAIN domain_hourly_requests = {}

C8_ResetStep ==
    \A T \in Domains :
        (CalledOp("reset_domain_limits") /\ ret'.domain = T) =>
            /\ BurstOf(T)' = << >> /\ MinuteOf(T)' = << >> /\ HourlyOf(T)' = << >>
            /\ LET st == get_stats(BurstOf(T), MinuteOf(T), HourlyOf(T), config, now)'.value
               IN st.burst_requests = 0 /\ st.minute_requests = 0 /\ st.hourly_requests = 0
            /\ (/\ config.burst_limit > 0
                /\ config.requests_per_minute > 0
                /\ config.requests_per_hour > 0)
               => is_allowed(BurstOf(T), MinuteOf(T), HourlyOf(T), config, T, now)'.allowed
            /\ \A B \in Domains \ {T} :
                 /\ BurstOf(B)' = BurstOf(B)
                 /\ MinuteOf(B)' = MinuteOf(B)
                 /\ HourlyOf(B)' = HourlyOf(B)
            \* idempotence: a second reset changes nothing more
            /\ (BurstOf(T) = << >> /\ MinuteOf(T) = << >> /\ HourlyOf(T) = << >>)
                  => (BurstOf(T)' = BurstOf(T) /\ MinuteOf(T)' = MinuteOf(T)
                      /\ HourlyOf(T)' = HourlyOf(T))

\* C8: reset_domain_limits(T) empties T's three windows whatever they held,
\* also when T had no state, so that the statistics of T show zero usage and
\* the next is_allowed(T) is allowed when the limits are positive; no other
\* tenant's window changes.
C8_Reset == [][C8_ResetStep]_vars

\* C8 witness: tenant a has just been reset while tenant b still holds a
\* recorded request, after a request of a had been recorded at time 0.
C8_Witness ==
    /\ ret.op = "reset_domain_limits" /\ ret.domain = <<"a">>
    /\ BurstOf(<<"a">>) = << >> /\ MinuteOf(<<"a">>) = << >> /\ HourlyOf(<<"a">>) = << >>
    /\ <<"a">> \in DOMAIN domain_hourly_requests
    /\ HourlyOf(<<"b">>) # << >>
    /\ config.enabled


\* The timestamps that is_allowed has recorded for tenant T and that lie within
\* the last h seconds of the clock reading t.  While the clock stays below
\* HourWindow and no reset is made, nothing leaves the hourly window, which
\* then holds every admitted timestamp of the tenant.
AdmittedWithin(T, h, t) == Len(Within(HourlyOf(T), h, t))

NoneOlderThan(w, h, t) == \A i \in 1..Len(w) : w[i] > t - h

C34_StatsExactStep ==
    \A T \in Domains :
        (CalledOp("get_stats") /\ ret'.domain = T) =>
            /\ ret'.value.burst_requests = AdmittedWithin(T, BurstWindow, now)
            /\ ret'.value.minute_requests = AdmittedWithin(T, MinuteWindow, now)
            /\ ret'.value.hourly_requests = AdmittedWithin(T, HourWindow, now)
            /\ ret'.value.burst_limit = config.burst_limit
            /\ ret'.value.minute_limit = config.requests_per_minute
            /\ ret'.value.hour_limit = config.requests_per_hour
            /\ NoneOlderThan(BurstOf(T)', BurstWindow, now)
            /\ NoneOlderThan(MinuteOf(T)', MinuteWindow, now)
            /\ NoneOlderThan(HourlyOf(T)', HourWindow, now)

\* C34: get_stats(T) at clock reading now reports for each window exactly the
\* number of admitted, not reset timestamps t of T with t > now - horizon,
\* together with the configured limits, and leaves no timestamp older than
\* the horizon in the window, also when is_allowed calls for T ran
\* concurrently.
C34_StatsExact == [][C34_StatsExactStep]_<<ret.seq>>


OldestFirst(w) == \A i \in 1..Len(w), j \in 1..Len(w) : i < j => w[i] <= w[j]

\* C35: in every reachable state each rate window of each tenant is ordered
\* oldest-first, the timestamps non-decreasing from head to tail, also when
\* is_allowed calls for one tenant are made by concurrent threads that read
\* the clock before they acquire the lock.
C35_OldestFirst ==
    \A T \in Domains :
        /\ OldestFirst(BurstOf(T))
        /\ OldestFirst(MinuteOf(T))
        /\ OldestFirst(HourlyOf(T))


\* The admitted timestamps of tenant T in the interval (t - h, t].
AdmittedIn(T, h, t) ==
    Cardinality({i \in 1..Len(HourlyOf(T)) :
                    HourlyOf(T)[i] > t - h /\ HourlyOf(T)[i] <= t})

\* C39: for every tenant and every instant t, the number of admitted request
\* timestamps recorded for the tenant in (t - 10, t] never exceeds
\* burst_limit, nor requests_per_minute in (t - 60, t], nor
\* requests_per_hour in (t - 3600, t], under any interleaving of concurrent
\* is_allowed calls that read the clock before acquiring the lock, no reset
\* being made.
C39_SlidingWindowBound ==
    \A T \in Domains, t \in ConcTimePoints :
        /\ AdmittedIn(T, BurstWindow, t) <= config.burst_limit
        /\ AdmittedIn(T, MinuteWindow, t) <= config.requests_per_minute
        /\ AdmittedIn(T, HourWindow, t) <= config.requests_per_hour


SameWindows(B) ==
    /\ BurstOf(B)' = BurstOf(B)
    /\ MinuteOf(B)' = MinuteOf(B)
    /\ HourlyOf(B)' = HourlyOf(B)
    /\ (B \in DOMAIN domain_burst_requests') = (B \in DOMAIN domain_burst_requests)
    /\ (B \in DOMAIN domain_requests') = (B \in DOMAIN domain_requests)
    /\ (B \in DOMAIN domain_hourly_requests') = (B \in DOMAIN domain_hourly_requests)

\* Whether the timestamps of tenant B alone leave room under every limit at
\* clock reading t.
RoomFor(B, t) ==
    /\ Len(Within(BurstOf(B), BurstWindow, t)) < config.burst_limit
    /\ Len(Within(MinuteOf(B), MinuteWindow, t)) < config.requests_per_minute
    /\ Len(Within(HourlyOf(B), HourWindow, t)) < config.requests_per_hour

C40_IsolationStep ==
    \A A \in Domains :
        /\ (Called /\ ret'.domain = A) => \A B \in Domains \ {A} : SameWindows(B)
        /\ (CalledOp("is_allowed") /\ ret'.domain = A) =>
              (ret'.value.allowed <=> (~config.enabled \/ RoomFor(A, now)))

\* C40: is_allowed(A), get_stats(A) and reset_domain_limits(A) never modify
\* the three windows of a tenant B # A, and the outcome of is_allowed(B)
\* depends only on B's own admitted timestamps and the configured limits, so
\* that traffic on tenant A never causes a request of tenant B to be denied.
C40_Isolation == [][C40_IsolationStep]_<<ret.seq>>

\* C40 witness: tenant a has used up its burst limit, and a request of
\* tenant b, made as the third call, has just been admitted and recorded.
C40_Witness ==
    /\ config.enabled /\ config.burst_limit >= 1
    /\ Len(Within(BurstOf(<<"a">>), BurstWindow, now)) >= config.burst_limit
    /\ ret.seq = MaxRLOps /\ ret.op = "is_allowed" /\ ret.domain = <<"b">>
    /\ ret.value.allowed
    /\ BurstOf(<<"b">>) = <<now>>


====
